---- MODULE Spec2Model ----
(***************************************************************************)
(* Lazy DataFrame pipeline of nao1215/csv (dataframe.go): operations are   *)
(* accumulated on immutable handles, folded into a queryState, compiled to *)
(* one SQL statement and the scanned rows are reconciled afterwards.       *)
(*                                                                         *)
(* Strings are modelled as sequences of lexemes: a column name is a tuple  *)
(* such as <<"val">>, <<"val", "_x">>, <<"val", "_1">> or <<"t", ".", "a">>*)
(* and concatenation is \o.  A Go map is a TLA+ function; wherever the Go  *)
(* code ranges over a map the visiting order is an explicit parameter      *)
(* chosen nondeterministically by the action that calls it.                *)
(***************************************************************************)
EXTENDS Integers, Sequences, FiniteSets, TLC

VARIABLES
    state,      \* queryState produced by folding the operation list (first fold)
    state2,     \* queryState produced by folding the same list a second time
    prevState,  \* state before the last folded operation
    lastOp,     \* the last folded operation
    nops,       \* number of operations folded so far
    handles,    \* the DataFrame values created so far, in creation order
    derived,    \* for each handle: the handle it was derived from and the call
    bags,       \* the warning bags; a DataFrame holds the index of its bag
    counters,   \* the alias counters; a DataFrame holds the index of its counter
    world,      \* the files: path -> [cols, nrows]
    out,        \* outcome of the last materialization or DebugSQL call
    ncalls,     \* number of materialization and DebugSQL calls made
    procs       \* the materialization calls in flight, one per goroutine

foldVars == <<state, state2, prevState, lastOp, nops>>

frameVars == <<handles, derived, bags, counters, world, out, ncalls, procs>>

vars == <<state, state2, prevState, lastOp, nops,
          handles, derived, bags, counters, world, out, ncalls, procs>>

-----------------------------------------------------------------------------
(* Bounds *)

MaxOps == 3

MaxDerived == 2

MaxChain == 3

MaxCalls == 1

MaxEvals == 2

MaxProcs == 2

-----------------------------------------------------------------------------
(* Generic helpers *)

Range(s) == {s[i] : i \in 1..Len(s)}

containsString(list, target) == \E i \in 1..Len(list) : list[i] = target

Perms(S) == {p \in [1..Cardinality(S) -> S] : \A x \in S : \E i \in DOMAIN p : p[i] = x}

MapPut(m, k, v) == [n \in (DOMAIN m) \cup {k} |-> IF n = k THEN v ELSE m[n]]

MapDel(m, k) == [n \in (DOMAIN m) \ {k} |-> m[n]]

EmptyMap == [n \in {} |-> <<>>]

-----------------------------------------------------------------------------
(* Strings as lexeme sequences *)

LowerLexeme(t) ==
    CASE t = "A" -> "a"
      [] t = "B" -> "b"
      [] t = "T" -> "t"
      [] OTHER -> t

ToLower(name) == [i \in 1..Len(name) |-> LowerLexeme(name[i])]

HasSuffix(name, sfx) ==
    /\ Len(name) >= Len(sfx)
    /\ SubSeq(name, Len(name) - Len(sfx) + 1, Len(name)) = sfx

\* strings.LastIndex(name, "."), 0 when there is none (1-based positions)
LastDot(name) ==
    LET S == {i \in 1..Len(name) : name[i] = "."}
    IN IF S = {} THEN 0 ELSE CHOOSE i \in S : \A j \in S : j <= i

normalizeColumnName(name) ==
    LET idx == LastDot(name)
    IN IF idx >= 1 /\ idx < Len(name)
       THEN LET prefix == SubSeq(name, 1, idx - 1)
            IN IF prefix = ToLower(prefix)
               THEN SubSeq(name, idx + 1, Len(name))
               ELSE name
       ELSE name

-----------------------------------------------------------------------------
(* queryState *)

defaultSuffixes == << <<"_x">>, <<"_y">> >>

NoSuffixes == << <<>>, <<>> >>

newQueryState(base, warns) ==
    [ baseTable     |-> base,
      selectCols    |-> <<>>,
      filters       |-> <<>>,
      joins         |-> <<>>,
      sorts         |-> <<>>,
      mutations     |-> <<>>,
      casts         |-> <<>>,
      fillNAs       |-> <<>>,
      renames       |-> EmptyMap,
      renameOrder   |-> <<>>,
      drops         |-> {},
      suffixes      |-> defaultSuffixes,
      inlineRenames |-> FALSE,
      warnings      |-> warns ]

RECURSIVE resolveOriginalFrom(_, _, _)
resolveOriginalFrom(order, i, current) ==
    IF i < 1 THEN current
    ELSE resolveOriginalFrom(order, i - 1,
             IF order[i].new = current THEN order[i].old ELSE current)

resolveOriginalColumn(q, name) ==
    resolveOriginalFrom(q.renameOrder, Len(q.renameOrder), normalizeColumnName(name))

RECURSIVE resolveCurrentFrom(_, _, _)
resolveCurrentFrom(order, i, current) ==
    IF i > Len(order) THEN current
    ELSE resolveCurrentFrom(order, i + 1,
             IF order[i].old = current THEN order[i].new ELSE current)

resolveCurrentColumn(q, name) ==
    resolveCurrentFrom(q.renameOrder, 1, normalizeColumnName(name))

columnInSelection(q, name) ==
    \/ Len(q.selectCols) = 0
    \/ containsString(q.selectCols, name)
    \/ containsString(q.selectCols, resolveCurrentColumn(q, name))
    \/ containsString(q.selectCols, resolveOriginalColumn(q, name))

warn(q, msg) == [q EXCEPT !.warnings = Append(@, msg)]

-----------------------------------------------------------------------------
(* Operations: Apply folds one operation into the queryState *)

filterOpApply(q, expr) == [q EXCEPT !.filters = Append(@, expr)]

\* the loop of selectOp.Apply with the seen set keyed by the name as written
RECURSIVE selectDedupCaseSensitive(_, _, _)
selectDedupCaseSensitive(cols, seen, acc) ==
    IF cols = <<>> THEN acc
    ELSE LET name == normalizeColumnName(Head(cols))
         IN IF name \in seen
            THEN selectDedupCaseSensitive(Tail(cols), seen, acc)
            ELSE selectDedupCaseSensitive(Tail(cols), seen \cup {name}, Append(acc, name))

RECURSIVE selectDedup(_, _, _)
selectDedup(cols, seen, acc) ==
    IF cols = <<>> THEN acc
    ELSE LET name == normalizeColumnName(Head(cols))
             key  == ToLower(name)
         IN IF key \in seen
            THEN selectDedup(Tail(cols), seen, acc)
            ELSE selectDedup(Tail(cols), seen \cup {key}, Append(acc, name))

selectOpApply(q, cols) == [q EXCEPT !.selectCols = selectDedup(cols, {}, <<>>)]

\* the loop over o.cols without the lookup of the column's current name
RECURSIVE dropMarkAsWritten(_, _)
dropMarkAsWritten(q, cols) ==
    IF cols = <<>> THEN q
    ELSE LET name == normalizeColumnName(Head(cols))
         IN IF Len(q.selectCols) > 0 /\ ~containsString(q.selectCols, name)
            THEN dropMarkAsWritten(warn(q, <<"drop skipped", name>>), Tail(cols))
            ELSE dropMarkAsWritten([q EXCEPT !.drops = @ \cup {name}], Tail(cols))

\* the loop over o.cols of dropOp.Apply: each column is warned about or marked
RECURSIVE dropMark(_, _)
dropMark(q, cols) ==
    IF cols = <<>> THEN q
    ELSE LET n    == normalizeColumnName(Head(cols))
             name == IF n \in DOMAIN q.renames THEN q.renames[n] ELSE n
         IN IF Len(q.selectCols) > 0 /\ ~containsString(q.selectCols, name)
            THEN dropMark(warn(q, <<"drop skipped", name>>), Tail(cols))
            ELSE dropMark([q EXCEPT !.drops = @ \cup {name}], Tail(cols))

dropOpApply(q, cols) ==
    LET marked == dropMark(q, cols)
    IN IF Len(marked.selectCols) > 0
       THEN [marked EXCEPT !.selectCols = SelectSeq(@, LAMBDA col : col \notin marked.drops)]
       ELSE marked

\* index of the first rename entry whose old name is origOld, 0 when none
renameEntryIndex(order, origOld) ==
    LET S == {i \in 1..Len(order) : order[i].old = origOld}
    IN IF S = {} THEN 0 ELSE CHOOSE i \in S : \A j \in S : i <= j

\* one iteration of the loop over o.mapping that appends an entry for every
\* rename instead of updating the entry of the original name
renamePairAppending(q, k, v) ==
    LET requestedOld == normalizeColumnName(k)
        newCol       == normalizeColumnName(v)
        origOld      == resolveOriginalColumn(q, requestedOld)
        currentName  == resolveCurrentColumn(q, origOld)
    IN IF newCol \in q.drops THEN q
       ELSE IF Len(q.selectCols) > 0 /\ ~containsString(q.selectCols, currentName)
       THEN warn(q, <<"rename skipped", requestedOld>>)
       ELSE IF currentName = newCol THEN q
       ELSE [q EXCEPT
               !.renames     = MapPut(@, origOld, newCol),
               !.renameOrder = Append(@, [old |-> origOld, new |-> newCol]),
               !.selectCols  = [i \in 1..Len(@) |->
                                   IF @[i] = currentName THEN newCol ELSE @[i]]]

\* one iteration of the loop over o.mapping of renameOp.Apply
renamePair(q, k, v) ==
    LET requestedOld == normalizeColumnName(k)
        newCol       == normalizeColumnName(v)
        origOld      == resolveOriginalColumn(q, requestedOld)
        currentName  == resolveCurrentColumn(q, origOld)
        idx          == renameEntryIndex(q.renameOrder, origOld)
    IN IF newCol \in q.drops THEN q
       ELSE IF Len(q.selectCols) > 0 /\ ~containsString(q.selectCols, currentName)
       THEN warn(q, <<"rename skipped", requestedOld>>)
       ELSE IF currentName = newCol THEN q
       ELSE [q EXCEPT
               !.renames     = MapPut(@, origOld, newCol),
               !.renameOrder = IF idx > 0
                               THEN [@ EXCEPT ![idx].new = newCol]
                               ELSE Append(@, [old |-> origOld, new |-> newCol]),
               !.selectCols  = [i \in 1..Len(@) |->
                                   IF @[i] = currentName THEN newCol ELSE @[i]]]

\* renameOp.Apply; pairs is the mapping in the order the map iteration visits it
RECURSIVE renameOpApply(_, _)
renameOpApply(q, pairs) ==
    IF pairs = <<>> THEN q
    ELSE renameOpApply(renamePair(q, Head(pairs)[1], Head(pairs)[2]), Tail(pairs))

\* identifierRegex.ReplaceAllStringFunc for one rename entry; an expression is a
\* sequence of lexemes, each an identifier (a column name) or another token
IsIdentifier(tok) ==
    /\ tok # <<>>
    /\ \A i \in 1..Len(tok) : tok[i] \notin {"+", "1", "10", "/", ".", "(", ")"}

rewriteOnce(expr, entry) ==
    [i \in 1..Len(expr) |->
        IF IsIdentifier(expr[i]) /\ expr[i] = entry.new THEN entry.old ELSE expr[i]]

RECURSIVE rewriteExpressionWithOriginalNames(_, _)
rewriteExpressionWithOriginalNames(expr, entries) ==
    IF entries = <<>> THEN expr
    ELSE LET entry == Head(entries)
         IN rewriteExpressionWithOriginalNames(
                IF entry.new = entry.old \/ entry.new = <<>>
                THEN expr ELSE rewriteOnce(expr, entry),
                Tail(entries))

mutateOpApply(q, col, expr) ==
    LET target == normalizeColumnName(resolveCurrentColumn(q, col))
        e      == rewriteExpressionWithOriginalNames(expr, q.renameOrder)
        q1     == [q EXCEPT !.mutations = Append(@, [Column |-> target, Expr |-> e])]
    IN IF Len(q1.selectCols) > 0 /\ ~containsString(q1.selectCols, target)
       THEN [q1 EXCEPT !.selectCols = Append(@, target)]
       ELSE q1

sortOpApply(q, col, asc) ==
    [q EXCEPT !.sorts = Append(@, [Column |-> normalizeColumnName(col), Asc |-> asc])]

castOpApply(q, ocol, dtype) ==
    LET col == resolveOriginalColumn(q, ocol)
    IN IF ~columnInSelection(q, col) /\ ~columnInSelection(q, ocol)
       THEN warn(q, <<"cast ignored", ocol>>)
       ELSE [q EXCEPT !.casts = Append(@, [Column |-> col, DType |-> dtype])]

RECURSIVE dropNaOpApply(_, _)
dropNaOpApply(q, cols) ==
    IF cols = <<>> THEN q
    ELSE dropNaOpApply(
             [q EXCEPT !.filters =
                 Append(@, <<resolveOriginalColumn(q, Head(cols)), <<"IS NOT NULL">> >>)],
             Tail(cols))

fillNaOpApply(q, ocol, value) ==
    LET col == resolveOriginalColumn(q, ocol)
    IN IF ~columnInSelection(q, col) /\ ~columnInSelection(q, ocol)
       THEN warn(q, <<"fillna ignored", ocol>>)
       ELSE [q EXCEPT !.fillNAs = Append(@, [Column |-> col, Value |-> value])]

joinOpApply(q, o) ==
    [q EXCEPT
        !.suffixes = IF o.suffixes # NoSuffixes THEN o.suffixes ELSE @,
        !.joins    = Append(@, [OtherTable |-> o.alias,
                                On         |-> o.on,
                                Type       |-> o.joinType,
                                SubQuery   |-> o.subquery,
                                Suffixes   |-> o.suffixes])]

\* sqlOp.Apply dispatched on the operation's type; order is the visiting order
\* of the mapping of a renameOp and is ignored by every other operation
Apply(q, op, order) ==
    CASE op.kind = "filter" -> filterOpApply(q, op.expr)
      [] op.kind = "select" -> selectOpApply(q, op.cols)
      [] op.kind = "drop"   -> dropOpApply(q, op.cols)
      [] op.kind = "rename" -> renameOpApply(q, [i \in 1..Len(order) |-> <<order[i], op.mapping[order[i]]>>])
      [] op.kind = "mutate" -> mutateOpApply(q, op.col, op.expr)
      [] op.kind = "sort"   -> sortOpApply(q, op.col, op.asc)
      [] op.kind = "cast"   -> castOpApply(q, op.col, op.dtype)
      [] op.kind = "dropna" -> dropNaOpApply(q, op.cols)
      [] op.kind = "fillna" -> fillNaOpApply(q, op.col, op.value)
      [] op.kind = "join"   -> joinOpApply(q, op)

\* the visiting orders a range over op's map can take (one empty order for
\* operations that hold no map)
Orders(op) == IF op.kind = "rename" THEN Perms(DOMAIN op.mapping) ELSE {<<>>}


-----------------------------------------------------------------------------
(* Query compiler.  The statement text is kept clause by clause: the        *)
(* projection list, the FROM table, the joins with their ON text, the WHERE *)
(* predicates, the ORDER BY keys and the LIMIT.                             *)

\* fmt.Sprint of a small integer
NumStr(n) ==
    CASE n = 0 -> "0" [] n = 1 -> "1" [] n = 2 -> "2" [] n = 3 -> "3" [] n = 4 -> "4"
      [] n = 5 -> "5" [] n = 6 -> "6" [] n = 7 -> "7" [] n = 8 -> "8" [] n = 9 -> "9"
      [] n = 10 -> "10" [] n = 11 -> "11" [] n = 12 -> "12"
      [] OTHER -> "N"

\* a Go value passed to FillNA is a record [type, text]
literal(v) ==
    CASE v.type = "nil"    -> <<"NULL">>
      [] v.type = "string" -> <<"'", v.text, "'">>
      [] v.type = "bool"   -> IF v.text = "true" THEN <<"1">> ELSE <<"0">>
      [] OTHER             -> <<v.text>>

NoLimit == -1

joinKeyword(t) ==
    CASE t = "INNER" -> "INNER JOIN"
      [] t = "LEFT"  -> "LEFT JOIN"
      [] t = "RIGHT" -> "RIGHT JOIN"
      [] t = "FULL"  -> "FULL OUTER JOIN"
      [] OTHER       -> "INNER JOIN"

resolveSortColumn(q, name) ==
    LET col == resolveOriginalColumn(q, name)
    IN IF col = <<>> THEN name ELSE col

(* Text of a join condition: a sequence of lexemes, among them " " (white   *)
(* space), "=", "." and words.                                              *)

IsSpace(t) == t = " "

IsWord(t) == t \notin {" ", "=", ".", "-", "/", "+", "'", "(", ")", ","}

\* strings.TrimSpace
RECURSIVE TrimLeft(_)
TrimLeft(s) == IF s # <<>> /\ IsSpace(Head(s)) THEN TrimLeft(Tail(s)) ELSE s

RECURSIVE TrimRight(_)
TrimRight(s) ==
    IF s # <<>> /\ IsSpace(s[Len(s)]) THEN TrimRight(SubSeq(s, 1, Len(s) - 1)) ELSE s

TrimSpace(s) == TrimRight(TrimLeft(s))

\* position after the longest run of word lexemes (\w+) that starts at i
RECURSIVE SkipWords(_, _)
SkipWords(s, i) == IF i <= Len(s) /\ IsWord(s[i]) THEN SkipWords(s, i + 1) ELSE i

\* position after the longest run of white space (\s*) that starts at i
RECURSIVE SkipSpaces(_, _)
SkipSpaces(s, i) == IF i <= Len(s) /\ IsSpace(s[i]) THEN SkipSpaces(s, i + 1) ELSE i

\* position after \w+(\.\w+)? starting at i, 0 when it does not match there
MatchIdent(s, i) ==
    LET j == SkipWords(s, i)
    IN IF j = i THEN 0
       ELSE IF j <= Len(s) /\ s[j] = "."
            THEN LET k == SkipWords(s, j + 1)
                 IN IF k = j + 1 THEN j ELSE k
            ELSE j

\* simpleJoinRegex: ^\w+(\.\w+)?\s*=\s*\w+(\.\w+)?$
isExplicitJoinCondition(cond) ==
    LET a == MatchIdent(cond, 1)
        b == IF a = 0 THEN 0 ELSE SkipSpaces(cond, a)
        c == IF b = 0 \/ b > Len(cond) \/ cond[b] # "=" THEN 0
             ELSE SkipSpaces(cond, b + 1)
        d == IF c = 0 THEN 0 ELSE MatchIdent(cond, c)
    IN d = Len(cond) + 1

joinCondition(base, j) ==
    LET cond == TrimSpace(j.On)
    IN IF cond = <<>> THEN cond
       ELSE IF isExplicitJoinCondition(cond) THEN cond
       ELSE base \o <<".">> \o cond \o <<" ", "=", " ">> \o j.OtherTable \o <<".">> \o cond

\* buildSelectExpressions; renOrder is the order in which the range over
\* q.renames visits the map (read only in inline-rename mode)
\* the projection list with the rename aliases put before the mutations
buildSelectExpressionsAliasFirst(q, renOrder) ==
    LET star(t)  == [kind |-> "star", table |-> t]
        joins    == [i \in 1..Len(q.joins) |-> star(q.joins[i].OtherTable)]
        casts    == [i \in 1..Len(q.casts) |->
                        [kind |-> "cast", col |-> q.casts[i].Column,
                         dtype |-> q.casts[i].DType, as |-> q.casts[i].Column]]
        fills    == [i \in 1..Len(q.fillNAs) |->
                        [kind |-> "ifnull", col |-> q.fillNAs[i].Column,
                         value |-> literal(q.fillNAs[i].Value), as |-> q.fillNAs[i].Column]]
        muts     == [i \in 1..Len(q.mutations) |->
                        [kind |-> "expr", expr |-> q.mutations[i].Expr,
                         as |-> q.mutations[i].Column]]
        renames  == IF q.inlineRenames
                    THEN [i \in 1..Len(renOrder) |->
                            [kind |-> "alias", col |-> renOrder[i],
                             as |-> q.renames[renOrder[i]]]]
                    ELSE <<>>
    IN <<star(q.baseTable)>> \o joins \o casts \o fills \o renames \o muts

buildSelectExpressions(q, renOrder) ==
    LET star(t)  == [kind |-> "star", table |-> t]
        joins    == [i \in 1..Len(q.joins) |-> star(q.joins[i].OtherTable)]
        casts    == [i \in 1..Len(q.casts) |->
                        [kind |-> "cast", col |-> q.casts[i].Column,
                         dtype |-> q.casts[i].DType, as |-> q.casts[i].Column]]
        fills    == [i \in 1..Len(q.fillNAs) |->
                        [kind |-> "ifnull", col |-> q.fillNAs[i].Column,
                         value |-> literal(q.fillNAs[i].Value), as |-> q.fillNAs[i].Column]]
        muts     == [i \in 1..Len(q.mutations) |->
                        [kind |-> "expr", expr |-> q.mutations[i].Expr,
                         as |-> q.mutations[i].Column]]
        renames  == IF q.inlineRenames
                    THEN [i \in 1..Len(renOrder) |->
                            [kind |-> "alias", col |-> renOrder[i],
                             as |-> q.renames[renOrder[i]]]]
                    ELSE <<>>
    IN <<star(q.baseTable)>> \o joins \o casts \o fills \o muts \o renames

compileSQL(q, limit, renOrder) ==
    [ projection |-> buildSelectExpressions(q, renOrder),
      from       |-> q.baseTable,
      joins      |-> [i \in 1..Len(q.joins) |->
                        [keyword  |-> joinKeyword(q.joins[i].Type),
                         subquery |-> q.joins[i].SubQuery,
                         alias    |-> q.joins[i].OtherTable,
                         on       |-> joinCondition(q.baseTable, q.joins[i])]],
      where      |-> q.filters,
      orderBy    |-> [i \in 1..Len(q.sorts) |->
                        [col  |-> resolveSortColumn(q, q.sorts[i].Column),
                         desc |-> ~q.sorts[i].Asc]],
      limit      |-> limit ]

\* the visiting orders of q.renames
RenameOrders(q) == Perms(DOMAIN q.renames)

\* filepath.Base then every extension stripped; a path is a lexeme sequence
\* with "/" and "." as separators
LastIndexOf(s, ch) ==
    LET S == {i \in 1..Len(s) : s[i] = ch}
    IN IF S = {} THEN 0 ELSE CHOOSE i \in S : \A j \in S : j <= i

RECURSIVE StripExts(_)
StripExts(base) ==
    LET d == LastIndexOf(base, ".")
    IN IF d = 0 THEN base ELSE StripExts(SubSeq(base, 1, d - 1))

tableNameFromPath(path) ==
    StripExts(SubSeq(path, LastIndexOf(path, "/") + 1, Len(path)))

joinConditionFromKeys(base, other, keys) ==
    LET part(k) == base \o <<".">> \o k \o <<" ", "=", " ">> \o other \o <<".">> \o k
        F[i \in 0..Len(keys)] ==
            IF i = 0 THEN <<>>
            ELSE IF i = 1 THEN part(keys[1])
            ELSE F[i - 1] \o <<" ", "AND", " ">> \o part(keys[i])
    IN F[Len(keys)]

-----------------------------------------------------------------------------
(* The SQL engine behind filesql.OpenContext / db.QueryContext, as far as the *)
(* compiled statements use it.  A database maps a table name to its column    *)
(* list and row count; the cell of column c in row r holds data that depends  *)
(* on c and r only (row r of every table has the same key data), tagged with  *)
(* the table it was read from.                                                *)

EmptySQL == [empty |-> TRUE]

IsEmptySQL(sql) == "empty" \in DOMAIN sql

Cell(t, c, r) == [fn |-> "", tbl |-> t, col |-> c, row |-> r, expr |-> <<>>]

NullValue == [fn |-> "NULL", tbl |-> <<>>, col |-> <<>>, row |-> 0, expr |-> <<>>]

\* data equality of two cells, as the = of an ON clause sees it
SameData(v, w) == v.fn # "NULL" /\ w.fn # "NULL" /\ v.col = w.col /\ v.row = w.row

QueryError == [ok |-> FALSE, cols |-> <<>>, rows |-> <<>>]

RelError == [ok |-> FALSE, tabs |-> <<>>, rows |-> <<>>]

\* places <<table index, column index>> an identifier denotes in a FROM scope
ResolveIdent(tabs, ident) ==
    LET d == LastDot(ident)
    IN IF d >= 1 /\ d < Len(ident)
       THEN { p \in UNION {{<<ti, ci>> : ci \in 1..Len(tabs[ti].cols)} : ti \in 1..Len(tabs)} :
                /\ tabs[p[1]].name = SubSeq(ident, 1, d - 1)
                /\ tabs[p[1]].cols[p[2]] = SubSeq(ident, d + 1, Len(ident)) }
       ELSE { p \in UNION {{<<ti, ci>> : ci \in 1..Len(tabs[ti].cols)} : ti \in 1..Len(tabs)} :
                tabs[p[1]].cols[p[2]] = ident }

Resolves(tabs, ident) == Cardinality(ResolveIdent(tabs, ident)) = 1

ValueOf(tabs, row, ident) ==
    LET p == CHOOSE x \in ResolveIdent(tabs, ident) : TRUE
    IN row[p[1]][p[2]]

\* the conjuncts of an ON text, split at " AND "
RECURSIVE SplitAnd(_, _)
SplitAnd(cond, acc) ==
    IF cond = <<>> THEN <<acc>>
    ELSE IF Len(cond) >= 3 /\ SubSeq(cond, 1, 3) = <<" ", "AND", " ">>
         THEN <<acc>> \o SplitAnd(SubSeq(cond, 4, Len(cond)), <<>>)
         ELSE SplitAnd(Tail(cond), Append(acc, Head(cond)))

\* the two identifiers of a conjunct "x = y"
EqLeft(part) == SubSeq(part, 1, MatchIdent(part, 1) - 1)

EqRight(part) ==
    LET a == MatchIdent(part, 1)
        c == SkipSpaces(part, SkipSpaces(part, a) + 1)
    IN SubSeq(part, c, Len(part))

OnWellFormed(tabs, cond) ==
    /\ cond # <<>>
    /\ LET parts == SplitAnd(cond, <<>>)
       IN \A i \in 1..Len(parts) :
             /\ isExplicitJoinCondition(parts[i])
             /\ Resolves(tabs, EqLeft(parts[i]))
             /\ Resolves(tabs, EqRight(parts[i]))

OnHolds(tabs, row, cond) ==
    LET parts == SplitAnd(cond, <<>>)
    IN \A i \in 1..Len(parts) :
          SameData(ValueOf(tabs, row, EqLeft(parts[i])), ValueOf(tabs, row, EqRight(parts[i])))

\* concatenation of a sequence of sequences
RECURSIVE Flatten(_)
Flatten(ss) == IF ss = <<>> THEN <<>> ELSE Head(ss) \o Flatten(Tail(ss))

\* one JOIN: left is the relation so far, right the joined table's result
JoinRelations(left, rname, right, keyword, cond) ==
    LET tabs    == Append(left.tabs, [name |-> rname, cols |-> right.cols])
        nulls   == [i \in 1..Len(right.cols) |-> NullValue]
        matches(l) == SelectSeq([k \in 1..Len(right.rows) |-> Append(l, right.rows[k])],
                                LAMBDA row : OnHolds(tabs, row, cond))
        perLeft(l) == IF keyword = "LEFT JOIN" /\ matches(l) = <<>>
                      THEN <<Append(l, nulls)>>
                      ELSE matches(l)
    IN IF keyword \in {"RIGHT JOIN", "FULL OUTER JOIN"} \/ ~OnWellFormed(tabs, cond)
       THEN RelError
       ELSE [ok |-> TRUE, tabs |-> tabs,
             rows |-> Flatten([k \in 1..Len(left.rows) |-> perLeft(left.rows[k])])]

\* a WHERE predicate is <<column, operator, literal>>; the universe of the
\* model holds "c IS NOT NULL", "c > 1" and "1 = 0"
PredicateWellFormed(tabs, e) ==
    IF e[1] = <<"1">> THEN TRUE ELSE Resolves(tabs, e[1])

PredicateHolds(tabs, row, e) ==
    IF e[1] = <<"1">> THEN FALSE
    ELSE IF e[2] = <<"IS NOT NULL">> THEN ValueOf(tabs, row, e[1]).fn # "NULL"
    ELSE ValueOf(tabs, row, e[1]).row > 1

Reverse(s) == [i \in 1..Len(s) |-> s[Len(s) + 1 - i]]

\* identifiers of an expression
ExprIdents(expr) == {expr[i] : i \in {k \in 1..Len(expr) : IsIdentifier(expr[k])}}

ProjectionWellFormed(tabs, x) ==
    CASE x.kind = "star"   -> \E ti \in 1..Len(tabs) : tabs[ti].name = x.table
      [] x.kind = "cast"   -> Resolves(tabs, x.col)
      [] x.kind = "ifnull" -> Resolves(tabs, x.col)
      [] x.kind = "expr"   -> \A id \in ExprIdents(x.expr) : Resolves(tabs, id)
      [] x.kind = "alias"  -> Resolves(tabs, x.col)

ProjectionCols(tabs, x) ==
    IF x.kind = "star"
    THEN tabs[CHOOSE ti \in 1..Len(tabs) : tabs[ti].name = x.table].cols
    ELSE <<x.as>>

ProjectionValues(tabs, row, x) ==
    CASE x.kind = "star"   -> row[CHOOSE ti \in 1..Len(tabs) : tabs[ti].name = x.table]
      [] x.kind = "cast"   -> <<[ValueOf(tabs, row, x.col) EXCEPT !.fn = "CAST"]>>
      [] x.kind = "ifnull" -> <<[ValueOf(tabs, row, x.col) EXCEPT !.fn = "IFNULL"]>>
      [] x.kind = "expr"   ->
            <<[fn |-> "EXPR", tbl |-> <<>>, col |-> <<>>, expr |-> x.expr,
               row |-> LET ids == ExprIdents(x.expr)
                       IN IF ids = {} THEN 0
                          ELSE ValueOf(tabs, row, CHOOSE id \in ids : TRUE).row]>>
      [] x.kind = "alias"  -> <<ValueOf(tabs, row, x.col)>>

RECURSIVE EvalQuery(_, _)
RECURSIVE EvalJoins(_, _, _, _)

\* the FROM clause with joins i.. applied to rel
EvalJoins(rel, joins, i, db) ==
    IF ~rel.ok \/ i > Len(joins) THEN rel
    ELSE LET j     == joins[i]
             right == IF IsEmptySQL(j.subquery)
                      THEN IF j.alias \in DOMAIN db
                           THEN [ok |-> TRUE, cols |-> db[j.alias].cols,
                                 rows |-> [r \in 1..db[j.alias].nrows |->
                                            [c \in 1..Len(db[j.alias].cols) |->
                                               Cell(j.alias, db[j.alias].cols[c], r)]]]
                           ELSE QueryError
                      ELSE EvalQuery(j.subquery, db)
         IN IF ~right.ok THEN RelError
            ELSE EvalJoins(JoinRelations(rel, j.alias, right, j.keyword, j.on),
                           joins, i + 1, db)

\* the relation a FROM clause starts from: table name with the table t
BaseRelation(name, t) ==
    [ok |-> TRUE,
     tabs |-> <<[name |-> name, cols |-> t.cols]>>,
     rows |-> [r \in 1..t.nrows |-> <<[c \in 1..Len(t.cols) |-> Cell(name, t.cols[c], r)]>>]]

\* every name of the WHERE, ORDER BY and projection parts resolves in tabs
StatementWellFormed(sql, tabs) ==
    /\ \A i \in 1..Len(sql.where) : PredicateWellFormed(tabs, sql.where[i])
    /\ \A i \in 1..Len(sql.orderBy) : Resolves(tabs, sql.orderBy[i].col)
    /\ \A i \in 1..Len(sql.projection) : ProjectionWellFormed(tabs, sql.projection[i])

\* WHERE, ORDER BY and LIMIT on the rows of a relation
SelectRows(sql, tabs, rows) ==
    LET kept   == SelectSeq(rows, LAMBDA row :
                      \A i \in 1..Len(sql.where) : PredicateHolds(tabs, row, sql.where[i]))
        sorted == IF Len(sql.orderBy) > 0 /\ sql.orderBy[1].desc THEN Reverse(kept) ELSE kept
    IN IF sql.limit # NoLimit /\ sql.limit < Len(sorted)
       THEN SubSeq(sorted, 1, sql.limit) ELSE sorted

\* the result columns in order (duplicates kept) and the rows as value
\* sequences aligned with them
ProjectRelation(sql, tabs, rows) ==
    [ok   |-> TRUE,
     cols |-> Flatten([i \in 1..Len(sql.projection) |-> ProjectionCols(tabs, sql.projection[i])]),
     rows |-> [k \in 1..Len(rows) |->
                 Flatten([i \in 1..Len(sql.projection) |->
                            ProjectionValues(tabs, rows[k], sql.projection[i])])]]

EvalSelect(sql, rel) ==
    IF ~rel.ok THEN QueryError
    ELSE IF ~StatementWellFormed(sql, rel.tabs) THEN QueryError
    ELSE ProjectRelation(sql, rel.tabs, SelectRows(sql, rel.tabs, rel.rows))

\* result of one statement
EvalQuery(sql, db) ==
    IF sql.from \notin DOMAIN db THEN QueryError
    ELSE EvalSelect(sql, EvalJoins(BaseRelation(sql.from, db[sql.from]), sql.joins, 1, db))

-----------------------------------------------------------------------------
(* Result reconciler: scanAll, transformRows and their helpers.  A row is a *)
(* function from its keys to values.                                        *)

\* the "_%d" that scanAll appends to a repeated column name
NumSuffix(c) ==
    CASE c = 1 -> "_1" [] c = 2 -> "_2" [] c = 3 -> "_3" [] c = 4 -> "_4" [] c = 5 -> "_5"
      [] c = 6 -> "_6" [] c = 7 -> "_7" [] c = 8 -> "_8" [] c = 9 -> "_9" [] c = 10 -> "_10"
      [] c = 11 -> "_11"
      [] OTHER -> "_N"

\* strconv.Atoi of the digits of a lexeme "_<digits>", -1 for any other lexeme
SuffixNum(t) ==
    CASE t = "_0" -> 0 [] t = "_1" -> 1 [] t = "_2" -> 2 [] t = "_3" -> 3 [] t = "_4" -> 4
      [] t = "_5" -> 5 [] t = "_6" -> 6 [] t = "_7" -> 7 [] t = "_8" -> 8 [] t = "_9" -> 9
      [] t = "_10" -> 10 [] t = "_11" -> 11 [] t = "_2025" -> 2025
      [] OTHER -> -1

scanNames(cols) ==
    [i \in 1..Len(cols) |->
        LET c == Cardinality({j \in 1..(i - 1) : cols[j] = cols[i]})
        IN IF c > 0 THEN cols[i] \o <<NumSuffix(c)>> ELSE cols[i]]

\* scanAll: one map per scanned row; a later column of the same resolved name
\* overwrites an earlier one
scanAll(res) ==
    LET resolved == scanNames(res.cols)
        last(n)  == CHOOSE i \in 1..Len(resolved) :
                        /\ resolved[i] = n
                        /\ \A j \in 1..Len(resolved) : resolved[j] = n => j <= i
    IN [k \in 1..Len(res.rows) |-> [n \in Range(resolved) |-> res.rows[k][last(n)]]]

\* duplicateKeyRegex matched without reading the number: every key that ends
\* in a number counts as the first positional duplicate
parseDuplicateKeyAsFirst(key) ==
    LET num == IF Len(key) >= 2 THEN SuffixNum(key[Len(key)]) ELSE -1
    IN IF num < 0
       THEN [ok |-> FALSE, base |-> <<>>, idx |-> 0]
       ELSE [ok |-> TRUE, base |-> SubSeq(key, 1, Len(key) - 1), idx |-> 1]

\* duplicateKeyRegex ^(.+)_([0-9]+)$ and the bounds on the number
parseDuplicateKey(key) ==
    LET num == IF Len(key) >= 2 THEN SuffixNum(key[Len(key)]) ELSE -1
    IN IF num <= 0 \/ num > 10
       THEN [ok |-> FALSE, base |-> <<>>, idx |-> 0]
       ELSE [ok |-> TRUE, base |-> SubSeq(key, 1, Len(key) - 1), idx |-> num]

effectiveSuffixes(sfx) == IF sfx = NoSuffixes THEN defaultSuffixes ELSE sfx

\* the loop over the keys of one row in applyJoinSuffixes
RECURSIVE suffixLoop(_, _, _, _)
suffixLoop(row, consumed, keys, joins) ==
    IF keys = <<>> THEN [n \in (DOMAIN row) \ consumed |-> row[n]]
    ELSE LET key == Head(keys)
             p   == parseDuplicateKey(key)
         IN IF ~p.ok \/ p.idx - 1 < 0 \/ p.idx - 1 >= Len(joins) \/ key \notin DOMAIN row
            THEN suffixLoop(row, consumed, Tail(keys), joins)
            ELSE LET suffixes  == effectiveSuffixes(joins[p.idx].Suffixes)
                     leftName  == p.base \o suffixes[1]
                     rightName == p.base \o suffixes[2]
                     joinVal   == row[key]
                     r1 == IF p.base \in DOMAIN row
                           THEN MapPut(row, leftName, row[p.base]) ELSE row
                     r2 == MapPut(r1, rightName, joinVal)
                 IN suffixLoop(MapDel(r2, key), consumed \cup {p.base}, Tail(keys), joins)

\* applyJoinSuffixes on one row; keys is the order in which the row's keys are
\* visited
applyJoinSuffixes(row, joins, keys) ==
    IF Len(joins) = 0 THEN row ELSE suffixLoop(row, {}, keys, joins)

\* the keys of a row that the loop of applyJoinSuffixes acts on; every other
\* key is skipped without effect, so only their order is drawn
EligibleKeys(row, joins) ==
    {k \in DOMAIN row : parseDuplicateKey(k).ok /\ parseDuplicateKey(k).idx <= Len(joins)}

applyRenameSkipped(row, entries) == row

RECURSIVE applyRename(_, _)
applyRename(row, entries) ==
    IF entries = <<>> THEN row
    ELSE LET e == Head(entries)
         IN applyRename(IF e.old \in DOMAIN row
                        THEN MapDel(MapPut(row, e.new, row[e.old]), e.old)
                        ELSE row,
                        Tail(entries))

\* the candidates of resolveRowKey in the order they are tried
rowKeyCandidates(name) ==
    LET idx   == LastDot(name)
        cands == IF idx >= 1 /\ idx < Len(name)
                 THEN <<name, SubSeq(name, idx + 1, Len(name))>> ELSE <<name>>
        sfx   == IF "." \in Range(name) \/ HasSuffix(name, <<"_x">>) \/ HasSuffix(name, <<"_y">>)
                 THEN Flatten([i \in 1..Len(cands) |->
                          <<cands[i] \o defaultSuffixes[1], cands[i] \o defaultSuffixes[2]>>])
                 ELSE <<>>
    IN cands \o sfx

resolveRowKey(row, name) ==
    LET cands == rowKeyCandidates(name)
        hits  == {i \in 1..Len(cands) : cands[i] # <<>> /\ cands[i] \in DOMAIN row}
    IN IF hits = {} THEN [ok |-> FALSE, key |-> <<>>]
       ELSE [ok |-> TRUE, key |-> cands[CHOOSE i \in hits : \A j \in hits : i <= j]]

\* applyDrops; order is the visiting order of the drop set
RECURSIVE applyDrops(_, _)
applyDrops(row, order) ==
    IF order = <<>> THEN row
    ELSE LET r == resolveRowKey(row, Head(order))
         IN applyDrops(IF r.ok THEN MapDel(row, r.key) ELSE row, Tail(order))

projectRowKeepingAll(row, selectCols) == row

\* the final projection of one row in transformRows
projectRow(row, selectCols) ==
    LET keys == {resolveRowKey(row, selectCols[i]).key : i \in 1..Len(selectCols)}
    IN [k \in keys |-> row[k]]

unresolvedSelect(row, selectCols) ==
    {i \in 1..Len(selectCols) : ~resolveRowKey(row, selectCols[i]).ok}

\* one row through applyJoinSuffixes, applyRename and applyDrops
reconcileRow(row, q, keyOrder, dropOrder) ==
    applyDrops(applyRename(applyJoinSuffixes(row, q.joins, keyOrder), q.renameOrder), dropOrder)

NoError == <<>>

\* the error transformRows returns for the first selected name that does not
\* resolve in row
columnNotFound(row, selectCols) ==
    LET i == CHOOSE x \in unresolvedSelect(row, selectCols) :
                \A y \in unresolvedSelect(row, selectCols) : x <= y
    IN <<"column">> \o selectCols[i] \o <<"not found">>

\* the final projection of transformRows over the reconciled rows recs: the
\* first row with an unresolved selected name ends the call with an error
projectRows(recs, selectCols) ==
    LET bad == {k \in 1..Len(recs) : unresolvedSelect(recs[k], selectCols) # {}}
    IN IF Len(selectCols) = 0 THEN [err |-> NoError, rows |-> recs]
       ELSE IF bad # {}
       THEN [err  |-> columnNotFound(recs[CHOOSE x \in bad : \A y \in bad : x <= y], selectCols),
             rows |-> <<>>]
       ELSE [err  |-> NoError,
             rows |-> [k \in 1..Len(recs) |-> projectRow(recs[k], selectCols)]]

\* the rows after applyJoinSuffixes, applyRename and applyDrops; keyOrders[k]
\* and dropOrders[k] are the map visiting orders drawn for row k
reconcileRows(rows, q, keyOrders, dropOrders) ==
    [k \in 1..Len(rows) |-> reconcileRow(rows[k], q, keyOrders[k], dropOrders[k])]

transformRows(rows, q, keyOrders, dropOrders) ==
    projectRows(reconcileRows(rows, q, keyOrders, dropOrders), q.selectCols)

-----------------------------------------------------------------------------
(* Pipeline facade: DataFrame values and the chained calls *)

mergeRequiresKey == <<"merge requires at least one join key">>

NewFrame(path, bag, ctr) ==
    [source |-> path, ops |-> <<>>, err |-> NoError, warns |-> bag, aliasCounter |-> ctr]

withOpWithoutErr(df, op) ==
    [source       |-> df.source,
     ops          |-> Append(df.ops, op),
     err          |-> NoError,
     warns        |-> df.warns,
     aliasCounter |-> df.aliasCounter]

withOpFreshList(df, op) ==
    [source       |-> df.source,
     ops          |-> <<op>>,
     err          |-> df.err,
     warns        |-> df.warns,
     aliasCounter |-> df.aliasCounter]

withOp(df, op) ==
    [source       |-> df.source,
     ops          |-> Append(df.ops, op),
     err          |-> df.err,
     warns        |-> df.warns,
     aliasCounter |-> df.aliasCounter]

\* sqlOp.RequiredFiles
RequiredFiles(op) == IF op.kind = "join" THEN op.files ELSE {}

collectRequiredFiles(df) ==
    {df.source} \cup UNION {RequiredFiles(df.ops[i]) : i \in 1..Len(df.ops)}

\* for an operation list, the choices of one map visiting order per operation
OrderSeqs(ops) ==
    {os \in [1..Len(ops) -> UNION {Orders(ops[i]) : i \in 1..Len(ops)}] :
        \A i \in 1..Len(ops) : os[i] \in Orders(ops[i])}

\* the loop "for _, op := range ops { op.Apply(&state) }"
RECURSIVE FoldOps(_, _, _)
FoldOps(q, ops, ords) ==
    IF ops = <<>> THEN q
    ELSE FoldOps(Apply(q, Head(ops), Head(ords)), Tail(ops), Tail(ords))

\* DataFrame.buildQueryState; bag is the content of df's warning bag, and the
\* returned state's warnings field is the bag's content after the fold
buildQueryState(df, bag, ords) ==
    FoldOps(newQueryState(tableNameFromPath(df.source), bag), df.ops, ords)

\* the alias made of the table name alone
aliasNameWithoutCount(base, n) == base \o <<"_alias">>

\* DataFrame.nextAlias for the counter value n already incremented
aliasName(base, n) == base \o <<"_alias_", NumStr(n)>>

\* the subquery state of joinWithType
joinSubQueryState(other, bag, ords) ==
    FoldOps([newQueryState(tableNameFromPath(other.source), bag) EXCEPT !.inlineRenames = TRUE],
            other.ops, ords)

\* the joinOp built by joinWithType (keys non-empty); n is the incremented
\* alias counter and sub the folded subquery state
joinOpOf(df, other, keys, jt, suffixes, n, sub, renOrder) ==
    [kind     |-> "join",
     alias    |-> aliasName(tableNameFromPath(other.source), n),
     subquery |-> compileSQL(sub, NoLimit, renOrder),
     files    |-> collectRequiredFiles(other),
     on       |-> joinConditionFromKeys(tableNameFromPath(df.source),
                      aliasName(tableNameFromPath(other.source), n), keys),
     joinType |-> jt,
     suffixes |-> suffixes]

\* MergeOptions -> the key list
mergeKeys(opts) == IF Len(opts.On) = 0 /\ opts.OnKey # <<>> THEN <<opts.OnKey>> ELSE opts.On

mergeSuffixes(opts) == IF opts.Suffixes = NoSuffixes THEN defaultSuffixes ELSE opts.Suffixes

mergeJoinType(opts) ==
    CASE opts.How \in {"", "inner", "INNER", "Inner"} -> "INNER"
      [] opts.How \in {"left", "LEFT", "Left"}        -> "LEFT"
      [] opts.How \in {"right", "RIGHT", "Right"}     -> "RIGHT"
      [] opts.How \in {"outer", "OUTER", "full", "FULL"} -> "FULL"
      [] OTHER -> "INNER"

(* Actions.  Every call that returns a DataFrame appends the returned handle *)
(* to handles; derived records, per handle, the receiver it was called on   *)
(* (0 for NewDataFrame), the call, the joined-in handle and the join keys.  *)

Returned(df, from, call, other, keys) ==
    /\ handles' = Append(handles, df)
    /\ derived' = Append(derived, [from |-> from, call |-> call, other |-> other, keys |-> keys])

\* the number of handles returned by chained calls
NumDerived == Cardinality({i \in 1..Len(derived) : derived[i].from # 0})

\* a chained call that goes through withOp only
Chain(h, op, call) ==
    /\ Returned(withOp(handles[h], op), h, call, 0, <<>>)
    /\ UNCHANGED <<bags, counters, world, out, ncalls, procs>>

\* NewDataFrame on a file no handle was built for yet
NewDataFrame(P) == \E path \in P :
    /\ \A i \in 1..Len(handles) : handles[i].source # path
    /\ Returned(NewFrame(path, Len(bags) + 1, Len(counters) + 1), 0, "NewDataFrame", 0, <<>>)
    /\ bags' = Append(bags, <<>>)
    /\ counters' = Append(counters, 0)
    /\ UNCHANGED <<world, out, ncalls, procs>>

Filter(E) == \E h \in 1..Len(handles), e \in E :
    Chain(h, [kind |-> "filter", expr |-> e], "Filter")

Select(A) == \E h \in 1..Len(handles), cols \in A :
    Chain(h, [kind |-> "select", cols |-> cols], "Select")

Drop(A) == \E h \in 1..Len(handles), cols \in A :
    Chain(h, [kind |-> "drop", cols |-> cols], "Drop")

Rename(A) == \E h \in 1..Len(handles), m \in A :
    Chain(h, [kind |-> "rename", mapping |-> m], "Rename")

Mutate(A) == \E h \in 1..Len(handles), a \in A :
    Chain(h, [kind |-> "mutate", col |-> a[1], expr |-> a[2]], "Mutate")

Sort(A, B) == \E h \in 1..Len(handles), c \in A, asc \in B :
    Chain(h, [kind |-> "sort", col |-> c, asc |-> asc], "Sort")

Cast(A) == \E h \in 1..Len(handles), c \in A :
    Chain(h, [kind |-> "cast", col |-> c, dtype |-> "INTEGER"], "Cast")

DropNA(A) == \E h \in 1..Len(handles), cols \in A :
    Chain(h, [kind |-> "dropna", cols |-> cols], "DropNA")

FillNA(A) == \E h \in 1..Len(handles), c \in A :
    Chain(h, [kind |-> "fillna", col |-> c, value |-> [type |-> "int", text |-> "0"]], "FillNA")

\* DataFrame.joinWithType on handles h and o
joinWithType(h, o, keys, jt, suffixes, call) ==
    LET df    == handles[h]
        other == handles[o]
    IN IF Len(keys) = 0
       THEN /\ Returned(df, h, call, o, keys)
            /\ UNCHANGED <<bags, counters, world, out, ncalls, procs>>
       ELSE \E ords \in OrderSeqs(other.ops) :
              LET n   == counters[df.aliasCounter] + 1
                  sub == joinSubQueryState(other, bags[df.warns], ords)
              IN \E renOrder \in RenameOrders(sub) :
                   /\ Returned(withOp(df, joinOpOf(df, other, keys, jt, suffixes, n, sub, renOrder)),
                               h, call, o, keys)
                   /\ counters' = [counters EXCEPT ![df.aliasCounter] = n]
                   /\ bags' = [bags EXCEPT ![df.warns] = sub.warnings]
                   /\ UNCHANGED <<world, out, ncalls, procs>>

\* Join, LeftJoin, RightJoin and FullJoin on the single key k
Join(K, T) == \E h \in 1..Len(handles), o \in 1..Len(handles), k \in K, jt \in T :
    joinWithType(h, o, <<k>>, jt, defaultSuffixes, "Join")

Merge(O) == \E h \in 1..Len(handles), o \in 1..Len(handles), opts \in O :
    IF Len(mergeKeys(opts)) = 0
    THEN /\ Returned([handles[h] EXCEPT !.err = mergeRequiresKey], h, "Merge", o, <<>>)
         /\ UNCHANGED <<bags, counters, world, out, ncalls, procs>>
    ELSE joinWithType(h, o, mergeKeys(opts), mergeJoinType(opts), mergeSuffixes(opts), "Merge")

-----------------------------------------------------------------------------
(* Materialization: DataFrame.execute and the calls built on it.  DfRows is *)
(* DataFrame.Rows, DfHead is DataFrame.Head, and so on.                    *)

\* the database filesql opens on a file set
OpenDB(files) ==
    [t \in {tableNameFromPath(f) : f \in files} |->
        world[CHOOSE f \in files : tableNameFromPath(f) = t]]

KeyOrders(raw, q) ==
    [1..Len(raw) -> IF Len(raw) = 0 THEN {} ELSE Perms(EligibleKeys(raw[1], q.joins))]

DropOrders(raw, q) == [1..Len(raw) -> Perms(q.drops)]

\* what a call of execute leaves behind: the rows and error it returns, the
\* engine calls it made, the warning bag, the statement, and the rows as
\* reconciled before the final projection onto the selection sel
Outcome(rows, err, log, bag, sql, sel, recs) ==
    [rows |-> rows, err |-> err, log |-> log, bag |-> bag, sql |-> sql,
     sel |-> sel, recs |-> recs]

\* the engine calls of an execute that gets as far as transformRows: the
\* deferred rows.Close runs before the deferred db.Close
ExecLog == <<"open", "query", "scan", "transform", "closeRows", "closeDB">>

\* the result of transformRows on the reconciled rows recs
TransformOutcome(q, sql, recs) ==
    Outcome(projectRows(recs, q.selectCols).rows, projectRows(recs, q.selectCols).err,
            ExecLog, q.warnings, sql, q.selectCols, recs)

\* execute from scanAll on: raw holds the scanned rows
ScanOutcomes(q, sql, raw) ==
    { TransformOutcome(q, sql, reconcileRows(raw, q, ko, do)) :
        ko \in KeyOrders(raw, q), do \in DropOrders(raw, q) }

\* execute from db.QueryContext on, returning on a query error without the
\* deferred db.Close
QueryOutcomesLeaking(q, sql, res, fault) ==
    IF fault = "query" \/ ~res.ok
    THEN {Outcome(<<>>, <<"query failed">>, <<"open", "queryFail">>, q.warnings, sql,
                  q.selectCols, <<>>)}
    ELSE IF fault = "scan"
    THEN {Outcome(<<>>, <<"scan failed">>,
                  <<"open", "query", "scanFail", "closeRows", "closeDB">>,
                  q.warnings, sql, q.selectCols, <<>>)}
    ELSE ScanOutcomes(q, sql, scanAll(res))

\* execute from db.QueryContext on: res is what the engine answers
QueryOutcomes(q, sql, res, fault) ==
    IF fault = "query" \/ ~res.ok
    THEN {Outcome(<<>>, <<"query failed">>, <<"open", "queryFail", "closeDB">>, q.warnings, sql,
                  q.selectCols, <<>>)}
    ELSE IF fault = "scan"
    THEN {Outcome(<<>>, <<"scan failed">>,
                  <<"open", "query", "scanFail", "closeRows", "closeDB">>,
                  q.warnings, sql, q.selectCols, <<>>)}
    ELSE ScanOutcomes(q, sql, scanAll(res))

\* execute from filesql.OpenContext on
OpenOutcomes(q, files, sql, fault) ==
    IF fault = "open" \/ ~(files \subseteq DOMAIN world)
    THEN {Outcome(<<>>, <<"open failed">>, <<"openFail">>, q.warnings, sql, q.selectCols, <<>>)}
    ELSE QueryOutcomes(q, sql, EvalQuery(sql, OpenDB(files)), fault)

\* the outcomes of DataFrame.execute(ctx, limit) on df whose warning bag holds
\* bag; F is the set of engine faults that may strike ("none" for no fault)
ExecOutcomes(df, bag, limit, F) ==
    IF df.err # NoError
    THEN {Outcome(<<>>, df.err, <<>>, bag, EmptySQL, <<>>, <<>>)}
    ELSE UNION { OpenOutcomes(x[1], collectRequiredFiles(df), compileSQL(x[1], limit, <<>>), x[2]) :
                   x \in {buildQueryState(df, bag, ords) : ords \in OrderSeqs(df.ops)} \X F }

\* the engine faults that may strike a call: none, or filesql.OpenContext,
\* db.QueryContext or the scan of the result set returns an error
Faults == {"none", "open", "query", "scan"}

\* a call returns: out records it, the bag of the handle takes the warnings
Returns(h, call, n, r, text) ==
    /\ ncalls' = ncalls + 1
    /\ out' = [call |-> call, h |-> h, n |-> n, rows |-> r.rows, err |-> r.err,
               log |-> r.log, sql |-> r.sql, sel |-> r.sel, recs |-> r.recs, text |-> text,
               bagBefore |-> bags[handles[h].warns]]
    /\ bags' = [bags EXCEPT ![handles[h].warns] = r.bag]
    /\ UNCHANGED <<handles, derived, counters, world, procs>>

NoText == [keys |-> {}, lines |-> <<>>]

\* what Print and ToCSV write for rows: a header of the first row's keys and
\* one line per row (the sort.Strings order of the header is not modelled)
Rendered(rows) ==
    IF Len(rows) = 0 THEN NoText
    ELSE [keys |-> DOMAIN rows[1],
          lines |-> [i \in 1..Len(rows) |->
                        [k \in DOMAIN rows[1] |->
                            IF k \in DOMAIN rows[i] THEN rows[i][k] ELSE NullValue]]]

\* the rows Tail(n) keeps of an outcome
lastRows(r, n) ==
    IF r.err # NoError THEN [r EXCEPT !.rows = <<>>]
    ELSE IF n <= 0 \/ n >= Len(r.rows) THEN r
    ELSE [r EXCEPT !.rows = SubSeq(r.rows, Len(r.rows) - n + 1, Len(r.rows))]

\* what Print and ToCSV return and write for an outcome
written(r) == IF r.err # NoError THEN NoText ELSE Rendered(r.rows)

DfRows(F, M) ==
    /\ ncalls < M
    /\ \E h \in 1..Len(handles) :
         \E r \in ExecOutcomes(handles[h], bags[handles[h].warns], NoLimit, F) :
            Returns(h, "Rows", 0, r, NoText)

DfHead(N, F, M) ==
    /\ ncalls < M
    /\ \E h \in 1..Len(handles), n \in N :
         \E r \in ExecOutcomes(handles[h], bags[handles[h].warns], IF n < 0 THEN 0 ELSE n, F) :
            Returns(h, "Head", n, r, NoText)

DfTail(N, F, M) ==
    /\ ncalls < M
    /\ \E h \in 1..Len(handles), n \in N :
         \E r \in ExecOutcomes(handles[h], bags[handles[h].warns], NoLimit, F) :
            Returns(h, "Tail", n, lastRows(r, n), NoText)

DfPrint(F, M) ==
    /\ ncalls < M
    /\ \E h \in 1..Len(handles) :
         \E r \in ExecOutcomes(handles[h], bags[handles[h].warns], NoLimit, F) :
            Returns(h, "Print", 0, [r EXCEPT !.rows = <<>>], written(r))

DfToCSV(F, M) ==
    /\ ncalls < M
    /\ \E h \in 1..Len(handles) :
         \E r \in ExecOutcomes(handles[h], bags[handles[h].warns], NoLimit, F) :
            Returns(h, "ToCSV", 0, [r EXCEPT !.rows = <<>>], written(r))

\* DebugSQL: the statement text, or "" for a handle that carries an error
debugSQLOutcomes(df, bag) ==
    IF df.err # NoError
    THEN {Outcome(<<>>, NoError, <<>>, bag, EmptySQL, <<>>, <<>>)}
    ELSE { Outcome(<<>>, NoError, <<>>, q.warnings, compileSQL(q, NoLimit, <<>>), q.selectCols, <<>>) :
             q \in {buildQueryState(df, bag, ords) : ords \in OrderSeqs(df.ops)} }

DfDebugSQL(M) ==
    /\ ncalls < M
    /\ \E h \in 1..Len(handles) :
         \E r \in debugSQLOutcomes(handles[h], bags[handles[h].warns]) :
            Returns(h, "DebugSQL", 0, r, NoText)

\* what Shape returns for an outcome of Rows: the row count and the number of
\* keys of the first row, (0, 0) on an error
shapeOf(r) ==
    [keys  |-> {},
     lines |-> IF r.err # NoError THEN <<0, 0>>
               ELSE <<Len(r.rows),
                      IF Len(r.rows) > 0 THEN Cardinality(DOMAIN r.rows[1]) ELSE 0>>]

DfShape(F, M) ==
    /\ ncalls < M
    /\ \E h \in 1..Len(handles) :
         \E r \in ExecOutcomes(handles[h], bags[handles[h].warns], NoLimit, F) :
            Returns(h, "Shape", 0, [r EXCEPT !.rows = <<>>, !.err = NoError], shapeOf(r))

\* what Columns returns for an outcome of Head(1): the keys of the first row
\* (their sorted order is not modelled), nil on an error or without rows
columnsOf(r) ==
    [keys  |-> IF r.err # NoError \/ Len(r.rows) = 0 THEN {} ELSE DOMAIN r.rows[1],
     lines |-> <<>>]

DfColumns(F, M) ==
    /\ ncalls < M
    /\ \E h \in 1..Len(handles) :
         \E r \in ExecOutcomes(handles[h], bags[handles[h].warns], 1, F) :
            Returns(h, "Columns", 0, [r EXCEPT !.rows = <<>>, !.err = NoError], columnsOf(r))

(* Warnings.  A slice is its elements and its backing array: backing 0 is an *)
(* array of the slice's own, backing b > 0 is the array of the list of       *)
(* warning bag b.                                                            *)

\* Warnings returning the bag's list itself
WarningsAliased(df) == [list |-> bags[df.warns], backing |-> df.warns]

\* DataFrame.Warnings: nil for an empty bag, else a copy made with make and copy
Warnings(df) == [list |-> bags[df.warns], backing |-> 0]

DfWarnings == \E h \in 1..Len(handles) :
    /\ out' = [call |-> "Warnings", h |-> h, list |-> Warnings(handles[h]).list,
               backing |-> Warnings(handles[h]).backing, written |-> FALSE]
    /\ UNCHANGED <<handles, derived, bags, counters, world, ncalls, procs>>

\* the caller assigns to an element of the slice that Warnings returned; the
\* assignment reaches every slice over the same backing array
CallerWrites ==
    /\ out.call = "Warnings"
    /\ ~out.written
    /\ \E i \in 1..Len(out.list) :
          /\ out' = [out EXCEPT !.list[i] = <<"changed by the caller">>, !.written = TRUE]
          /\ bags' = IF out.backing = 0 THEN bags
                     ELSE [bags EXCEPT ![out.backing][i] = <<"changed by the caller">>]
    /\ UNCHANGED <<handles, derived, counters, world, ncalls, procs>>

-----------------------------------------------------------------------------
(* SpecFold.  Folding an operation list: DataFrame.buildQueryState, one      *)
(* operation per step.  The list is folded twice, as two materialization     *)
(* calls on one handle do; each fold draws its own map visiting orders.      *)

FoldNames == {<<"a">>, <<"b">>, <<"c">>}

SeqsUpTo2(S) == {<<x>> : x \in S} \cup {<<x, y>> : x \in S, y \in S}

DistinctSeqsUpTo2(S) == {s \in SeqsUpTo2(S) : Len(s) = Cardinality(Range(s))}

RenameMappings ==
    UNION {[D -> FoldNames] : D \in {E \in SUBSET FoldNames : Cardinality(E) \in {1, 2}}}

FoldJoinOps ==
    { [kind |-> "join", alias |-> <<"r", "_alias_", "1">>, subquery |-> EmptySQL,
       on |-> <<"t", ".", "a", " ", "=", " ", "r", "_alias_", "1", ".", "a">>,
       joinType |-> "INNER", suffixes |-> sfx] :
         sfx \in {defaultSuffixes, << <<"_L">>, <<"_R">> >>} }

NoOut == [call |-> "none"]

\* no handle exists and no call was made
FrameIdle ==
    /\ handles = <<>>
    /\ derived = <<>>
    /\ bags = <<>>
    /\ counters = <<>>
    /\ out = NoOut
    /\ ncalls = 0
    /\ procs = <<>>

FoldInit ==
    /\ state = newQueryState(<<"t">>, <<>>)
    /\ state2 = newQueryState(<<"t">>, <<>>)
    /\ prevState = newQueryState(<<"t">>, <<>>)
    /\ lastOp = [kind |-> "none"]
    /\ nops = 0
    /\ FrameIdle
    /\ world = EmptyMap

FoldStep(op) ==
    /\ nops < MaxOps
    /\ \E o1 \in Orders(op), o2 \in Orders(op) :
          /\ state' = Apply(state, op, o1)
          /\ state2' = Apply(state2, op, o2)
    /\ prevState' = state
    /\ lastOp' = op
    /\ nops' = nops + 1
    /\ UNCHANGED frameVars

FoldFilter == FoldStep([kind |-> "filter", expr |-> << <<"a">>, <<">">>, <<"1">> >>])

\* the argument lists handed to Select: up to two of the names, a list with
\* names that differ in case only, and a list with a qualified name
FoldSelections ==
    SeqsUpTo2(FoldNames) \cup
        { << <<"A">>, <<"a">>, <<"b">>, <<"A">> >>, << <<"t", ".", "a">>, <<"c">>, <<"a">> >> }

FoldSelect == \E cols \in FoldSelections : FoldStep([kind |-> "select", cols |-> cols])

FoldDrop == \E cols \in DistinctSeqsUpTo2(FoldNames) : FoldStep([kind |-> "drop", cols |-> cols])

FoldRename == \E m \in RenameMappings : FoldStep([kind |-> "rename", mapping |-> m])

\* the expressions handed to Mutate
FoldExprs == { << <<"a">>, <<"+">>, <<"1">> >>, << <<"c">>, <<"+">>, <<"b">> >> }

FoldMutate ==
    \E col \in FoldNames, e \in FoldExprs :
        FoldStep([kind |-> "mutate", col |-> col, expr |-> e])

FoldSort == \E col \in FoldNames : FoldStep([kind |-> "sort", col |-> col, asc |-> TRUE])

FoldCast == \E col \in FoldNames : FoldStep([kind |-> "cast", col |-> col, dtype |-> "INTEGER"])

FoldDropNA == \E col \in FoldNames : FoldStep([kind |-> "dropna", cols |-> <<col>>])

FoldFillNA ==
    \E col \in FoldNames :
        FoldStep([kind |-> "fillna", col |-> col, value |-> [type |-> "int", text |-> "0"]])

FoldJoin == \E o \in FoldJoinOps : FoldStep(o)

FoldNext ==
    \/ FoldFilter
    \/ FoldSelect
    \/ FoldDrop
    \/ FoldRename
    \/ FoldMutate
    \/ FoldSort
    \/ FoldCast
    \/ FoldDropNA
    \/ FoldFillNA
    \/ FoldJoin

SpecFold == FoldInit /\ [][FoldNext]_vars

\* the output schema held by a queryState
OutputSchema(q) ==
    [selectCols |-> q.selectCols, drops |-> q.drops, renames |-> q.renames,
     renameOrder |-> q.renameOrder, casts |-> q.casts, fillNAs |-> q.fillNAs]

\* the column names an operation is directed at
Targets(op) ==
    CASE op.kind = "drop"   -> Range(op.cols)
      [] op.kind = "rename" -> DOMAIN op.mapping
      [] op.kind = "cast"   -> {op.col}
      [] op.kind = "fillna" -> {op.col}
      [] OTHER -> {}

\* name denotes no column of q's projection list: neither as written nor under
\* its current or its original identity
ExcludedBySelect(q, name) ==
    /\ Len(q.selectCols) > 0
    /\ ~containsString(q.selectCols, normalizeColumnName(name))
    /\ ~containsString(q.selectCols, resolveCurrentColumn(q, name))
    /\ ~containsString(q.selectCols, resolveOriginalColumn(q, name))
    /\ ~containsString(q.selectCols, resolveCurrentColumn(q, resolveOriginalColumn(q, name)))

LenientCase ==
    /\ lastOp.kind \in {"drop", "rename", "cast", "fillna"}
    /\ \A t \in Targets(lastOp) : ExcludedBySelect(prevState, t)

\* C1: a Drop, Rename, Cast or FillNA whose targets are all excluded by a
\* non-empty projection list records at least one warning and leaves the
\* output schema as it was.
C1_Leniency ==
    LenientCase =>
        /\ Len(state.warnings) > Len(prevState.warnings)
        /\ OutputSchema(state) = OutputSchema(prevState)

\* a queryState without the content of the warning bag it points to
Planned(q) == [q EXCEPT !.warnings = <<>>]

\* C4: two folds of one operation list yield the same queryState and the same
\* compiled statement.
C4_FoldTwice ==
    /\ Planned(state) = Planned(state2)
    /\ compileSQL(state, NoLimit, <<>>) = compileSQL(state2, NoLimit, <<>>)

\* the expression with every identifier token replaced by the original name it
\* resolves to under q's rename chain
Originals(q, expr) ==
    [i \in 1..Len(expr) |->
        IF IsIdentifier(expr[i]) THEN resolveOriginalColumn(q, expr[i]) ELSE expr[i]]

\* C22: the expression a Mutate records is the given expression with each
\* identifier token replaced by the original name it resolves to under the
\* rename chain at that point, and a Rename folded later leaves the recorded
\* mutations as they were.
C22_MutateRewrite ==
    /\ lastOp.kind = "mutate" =>
          state.mutations[Len(state.mutations)].Expr = Originals(prevState, lastOp.expr)
    /\ lastOp.kind = "rename" => state.mutations = prevState.mutations

\* the ORDER BY list of the statement compiled from q
OrderBy(q) == compileSQL(q, NoLimit, <<>>).orderBy

\* C23: the statement orders by the original name that the Sort's column
\* denotes under the renames folded before the Sort, and a Rename folded after
\* a Sort leaves the ORDER BY list as it was.
C23_SortPosition ==
    /\ lastOp.kind = "sort" =>
          OrderBy(state)[Len(OrderBy(state))].col = resolveOriginalColumn(prevState, lastOp.col)
    /\ lastOp.kind = "rename" => OrderBy(state) = OrderBy(prevState)

\* the state joinWithType folds an operation list into: the fold of the list
\* from a state with inlineRenames set, which no Apply reads or writes
Inlined(q) == [q EXCEPT !.inlineRenames = TRUE]

\* the position of an expression's group in the projection list
GroupOf(x) ==
    CASE x.kind = "star"   -> 1
      [] x.kind = "cast"   -> 2
      [] x.kind = "ifnull" -> 3
      [] x.kind = "expr"   -> 4
      [] x.kind = "alias"  -> 5

\* the expressions of one kind, in the order they stand in the list P
OfKind(P, kind) == SelectSeq(P, LAMBDA x : x.kind = kind)

\* P lists q's expressions group by group
GroupedInOrder(q, P) ==
    /\ \A i \in 1..Len(P), j \in 1..Len(P) : i < j => GroupOf(P[i]) <= GroupOf(P[j])
    /\ [i \in 1..Len(OfKind(P, "star")) |-> OfKind(P, "star")[i].table]
          = <<q.baseTable>> \o [i \in 1..Len(q.joins) |-> q.joins[i].OtherTable]
    /\ [i \in 1..Len(OfKind(P, "cast")) |->
            [Column |-> OfKind(P, "cast")[i].col, DType |-> OfKind(P, "cast")[i].dtype]]
          = q.casts
    /\ [i \in 1..Len(OfKind(P, "ifnull")) |-> OfKind(P, "ifnull")[i].col]
          = [i \in 1..Len(q.fillNAs) |-> q.fillNAs[i].Column]
    /\ [i \in 1..Len(OfKind(P, "expr")) |->
            [Column |-> OfKind(P, "expr")[i].as, Expr |-> OfKind(P, "expr")[i].expr]]
          = q.mutations
    /\ Len(OfKind(P, "alias")) = (IF q.inlineRenames THEN Cardinality(DOMAIN q.renames) ELSE 0)
    /\ {<<x.col, x.as>> : x \in Range(OfKind(P, "alias"))}
          = (IF q.inlineRenames THEN {<<k, q.renames[k]>> : k \in DOMAIN q.renames} ELSE {})

\* C24: the projection list of the compiled statement holds the base table's
\* all-columns expression, then one per join in join order, then the casts,
\* the fills and the mutations, each group in application order, then (in
\* inline-rename mode only) the rename aliases.
C24_ProjectionOrder ==
    \A q \in {state, Inlined(state)} : \A ro \in RenameOrders(q) :
        GroupedInOrder(q, buildSelectExpressions(q, ro))

\* a Rename, a Mutate and a Cast were folded in this order
C24_Witness ==
    /\ lastOp.kind = "cast"
    /\ state.casts # <<>>
    /\ state.mutations # <<>>
    /\ state.renames # EmptyMap
    /\ prevState.casts = <<>>
    /\ prevState.mutations # <<>>

\* the names handed to the resolution: plain names, and names with a
\* lower-case and an upper-case table qualifier
ProbeNames ==
    FoldNames \cup {<<"d">>, <<"t", ".", "c">>, <<"t", ".", "d">>, <<"T", ".", "c">>}

\* no entry of q's rename chain has name as its original or its current name
Untouched(q, name) ==
    \A i \in 1..Len(q.renameOrder) :
        /\ q.renameOrder[i].old # name
        /\ q.renameOrder[i].new # name

\* C25: once renames are in the chain, resolving a name that no rename has
\* touched, to its original and to its current identity, returns the name
\* unchanged.
C25_ResolveUnrenamed ==
    state.renameOrder # <<>> =>
        \A name \in ProbeNames :
            Untouched(state, name) =>
                /\ resolveOriginalColumn(state, name) = name
                /\ resolveCurrentColumn(state, name) = name

\* the arguments of a Select, each without its table qualifier
Unqualified(cols) == [i \in 1..Len(cols) |-> normalizeColumnName(cols[i])]

\* the positions of names in which the name occurs for the first time, case
\* ignored
FirstOccurrences(names) ==
    {i \in 1..Len(names) : \A j \in 1..(i - 1) : ToLower(names[j]) # ToLower(names[i])}

\* C26: right after a Select is folded the projection list holds the Select's
\* normalized arguments in argument order, each name once, case ignored (its
\* first occurrence), and nothing else.
C26_SelectWholesale ==
    lastOp.kind = "select" =>
        LET names == Unqualified(lastOp.cols)
            sel   == state.selectCols
        IN /\ \A i \in 1..Len(sel), j \in 1..Len(sel) :
                 i # j => ToLower(sel[i]) # ToLower(sel[j])
           /\ Range(sel) = {names[i] : i \in FirstOccurrences(names)}
           /\ \A i \in 1..Len(sel), j \in 1..Len(sel) :
                 i < j => \E k \in FirstOccurrences(names), l \in FirstOccurrences(names) :
                              k < l /\ names[k] = sel[i] /\ names[l] = sel[j]

\* a Select whose arguments repeat a name in another case was folded over a
\* projection list that held a name the Select does not give
C26_Witness ==
    /\ lastOp.kind = "select"
    /\ Cardinality(FirstOccurrences(Unqualified(lastOp.cols))) < Len(lastOp.cols)
    /\ Cardinality(Range(lastOp.cols)) > Cardinality(FirstOccurrences(Unqualified(lastOp.cols)))
    /\ \E c \in Range(prevState.selectCols) : c \notin Range(Unqualified(lastOp.cols))

\* C29: the rename map and the rename-entry list of a folded state hold the
\* same (original, current) pairs, and no two entries of the list have the
\* same original name.
C29_RenameBookkeeping ==
    /\ {<<k, state.renames[k]>> : k \in DOMAIN state.renames}
          = {<<state.renameOrder[i].old, state.renameOrder[i].new>> :
                i \in 1..Len(state.renameOrder)}
    /\ \A i \in 1..Len(state.renameOrder), j \in 1..Len(state.renameOrder) :
          i # j => state.renameOrder[i].old # state.renameOrder[j].old

\* a column that was renamed before was renamed again: the chain is held as
\* one entry, next to the entry of another column
C29_Witness ==
    /\ lastOp.kind = "rename"
    /\ Len(state.renameOrder) = 2
    /\ Len(prevState.renameOrder) = 2
    /\ state.renameOrder # prevState.renameOrder
    /\ \E i \in 1..2 :
          /\ state.renameOrder[i].old = prevState.renameOrder[i].old
          /\ state.renameOrder[i].new # prevState.renameOrder[i].new
          /\ prevState.renameOrder[i].new \in DOMAIN lastOp.mapping

-----------------------------------------------------------------------------
(* Spec.  The facade over users.csv (id, name): NewDataFrame, every chained *)
(* call and every materialization call.                                      *)

usersCSV == <<"testdata", "/", "users", ".", "csv">>

FoldIdle ==
    /\ state = newQueryState(<<"t">>, <<>>)
    /\ state2 = newQueryState(<<"t">>, <<>>)
    /\ prevState = newQueryState(<<"t">>, <<>>)
    /\ lastOp = [kind |-> "none"]
    /\ nops = 0

MergeOpts(on, onKey, how, sfx) == [On |-> on, OnKey |-> onKey, How |-> how, Suffixes |-> sfx]

FrameMergeOptions ==
    { MergeOpts(<<>>, <<>>, "", NoSuffixes),
      MergeOpts(<<>>, <<"id">>, "left", NoSuffixes),
      MergeOpts(<< <<"id">>, <<"name">> >>, <<>>, "inner", NoSuffixes) }

Init ==
    /\ FoldIdle
    /\ FrameIdle
    /\ world = (usersCSV :> [cols |-> << <<"id">>, <<"name">> >>, nrows |-> 2])

Next ==
    \/ /\ NewDataFrame({usersCSV})
       /\ UNCHANGED foldVars
    \/ /\ NumDerived < MaxDerived
       /\ Filter({<< <<"id">>, <<">">>, <<"1">> >>})
       /\ UNCHANGED foldVars
    \/ /\ NumDerived < MaxDerived
       /\ Select({<< <<"name">> >>})
       /\ UNCHANGED foldVars
    \/ /\ NumDerived < MaxDerived
       /\ Drop({<< <<"name">> >>})
       /\ UNCHANGED foldVars
    \/ /\ NumDerived < MaxDerived
       /\ Rename({[c \in {<<"name">>} |-> <<"nm">>]})
       /\ UNCHANGED foldVars
    \/ /\ NumDerived < MaxDerived
       /\ Mutate({<< <<"k">>, << <<"id">>, <<"+">>, <<"1">> >> >>})
       /\ UNCHANGED foldVars
    \/ /\ NumDerived < MaxDerived
       /\ Sort({<<"id">>}, {FALSE})
       /\ UNCHANGED foldVars
    \/ /\ NumDerived < MaxDerived
       /\ Cast({<<"id">>})
       /\ UNCHANGED foldVars
    \/ /\ NumDerived < MaxDerived
       /\ DropNA({<< <<"name">> >>})
       /\ UNCHANGED foldVars
    \/ /\ NumDerived < MaxDerived
       /\ FillNA({<<"name">>})
       /\ UNCHANGED foldVars
    \/ /\ NumDerived < MaxDerived
       /\ Join({<<"id">>}, {"INNER", "LEFT", "RIGHT", "FULL"})
       /\ UNCHANGED foldVars
    \/ /\ NumDerived < MaxDerived
       /\ Merge(FrameMergeOptions)
       /\ UNCHANGED foldVars
    \/ /\ DfRows(Faults, MaxCalls)
       /\ UNCHANGED foldVars
    \/ /\ DfHead({1}, Faults, MaxCalls)
       /\ UNCHANGED foldVars
    \/ /\ DfTail({0, 1, 3}, Faults, MaxCalls)
       /\ UNCHANGED foldVars
    \/ /\ DfPrint(Faults, MaxCalls)
       /\ UNCHANGED foldVars
    \/ /\ DfToCSV(Faults, MaxCalls)
       /\ UNCHANGED foldVars
    \/ /\ DfDebugSQL(MaxCalls)
       /\ UNCHANGED foldVars

Spec == Init /\ [][Next]_vars

Materializing == {"Rows", "Head", "Tail", "Print", "ToCSV"}

EngineErrors == {<<"open failed">>, <<"query failed">>, <<"scan failed">>}

\* C3: a Merge without join keys returns a handle that carries the error, every
\* handle derived from an erroneous handle carries the same error, and a call
\* on such a handle returns that error and no rows, leaves the warning bag as
\* it was and makes no engine call; DebugSQL returns the empty text.
C3_DeferredError ==
    /\ \A h \in 1..Len(handles) :
          /\ (derived[h].call = "Merge" /\ derived[h].keys = <<>>)
                => handles[h].err = mergeRequiresKey
          /\ (derived[h].from # 0 /\ handles[derived[h].from].err # NoError)
                => handles[h].err = handles[derived[h].from].err
    /\ (out.call # "none" /\ handles[out.h].err # NoError) =>
          /\ out.rows = <<>>
          /\ out.text = NoText
          /\ out.log = <<>>
          /\ bags[handles[out.h].warns] = out.bagBefore
          /\ out.call \in Materializing => out.err = handles[out.h].err
          /\ out.call = "DebugSQL" => IsEmptySQL(out.sql)

\* a materialization call was made on a handle derived from the handle that the
\* keyless Merge returned
C3_Witness ==
    /\ out.call \in Materializing
    /\ handles[out.h].err = mergeRequiresKey
    /\ derived[out.h].call \notin {"Merge", "NewDataFrame"}
    /\ Len(handles[out.h].ops) > 0

\* C5: a call leaves every existing handle as it was, and the handle a chained
\* call returns holds the receiver's operation list with at most one operation
\* appended.
C5_HandleImmutability ==
    [][ /\ Len(handles') >= Len(handles)
        /\ \A i \in 1..Len(handles) :
              /\ handles'[i].ops = handles[i].ops
              /\ handles'[i].err = handles[i].err
        /\ Len(handles') > Len(handles) =>
              /\ Len(handles') = Len(handles) + 1
              /\ derived'[Len(handles')].from # 0 =>
                    LET new == handles'[Len(handles')]
                        rcv == handles[derived'[Len(handles')].from]
                    IN /\ Len(new.ops) \in {Len(rcv.ops), Len(rcv.ops) + 1}
                       /\ SubSeq(new.ops, 1, Len(rcv.ops)) = rcv.ops
      ]_vars

\* two chains were branched from one handle
C5_Witness ==
    \E i, j \in 1..Len(handles) :
        /\ i # j
        /\ derived[i].from # 0
        /\ derived[i].from = derived[j].from
        /\ handles[i].ops # handles[j].ops

\* the key lists of the join operations of handle h, in order
RECURSIVE JoinKeysOf(_)
JoinKeysOf(h) ==
    IF derived[h].from = 0 THEN <<>>
    ELSE JoinKeysOf(derived[h].from) \o
         (IF derived[h].call \in {"Join", "Merge"} /\ derived[h].keys # <<>>
          THEN <<derived[h].keys>> ELSE <<>>)

KeyEquality(B, A, k) == B \o <<".">> \o k \o <<" ", "=", " ">> \o A \o <<".">> \o k

\* B.k1 = A.k1 AND ... AND B.kn = A.kn
RECURSIVE KeyConjunction(_, _, _)
KeyConjunction(B, A, keys) ==
    IF Len(keys) = 1 THEN KeyEquality(B, A, keys[1])
    ELSE KeyEquality(B, A, keys[1]) \o <<" ", "AND", " ">> \o KeyConjunction(B, A, Tail(keys))

\* C9: the ON clause of every join of a compiled statement is the conjunction
\* of the key equalities between the base table and the join alias.
C9_JoinKeys ==
    (out.call = "DebugSQL" /\ ~IsEmptySQL(out.sql)) =>
        \A i \in 1..Len(out.sql.joins) :
            out.sql.joins[i].on =
                KeyConjunction(out.sql.from, out.sql.joins[i].alias, JoinKeysOf(out.h)[i])

\* the number of occurrences of event e in log
Count(log, e) == Cardinality({i \in 1..Len(log) : log[i] = e})

\* C14: in a call that opens the engine the connection is closed once, as the
\* last engine call before the return; an opened result set is closed once,
\* right before the connection; after a failed open nothing is queried or
\* closed.
C14_ResourceRelease ==
    (out.call \in Materializing /\ handles[out.h].err = NoError) =>
        /\ Count(out.log, "open") + Count(out.log, "openFail") = 1
        /\ Count(out.log, "closeDB") = Count(out.log, "open")
        /\ Count(out.log, "closeRows") = Count(out.log, "query")
        /\ "open" \in Range(out.log) => out.log[Len(out.log)] = "closeDB"
        /\ "query" \in Range(out.log) => out.log[Len(out.log) - 1] = "closeRows"
        /\ "openFail" \in Range(out.log) => out.log = <<"openFail">>
        /\ out.err = NoError => out.log = ExecLog

\* a call ended with a reconciliation error after the engine had answered
C14_Witness ==
    /\ out.call \in Materializing
    /\ out.err \notin EngineErrors \cup {NoError, mergeRequiresKey}
    /\ "closeDB" \in Range(out.log)

\* C15: Tail(n) returns the last min(n, N) rows of the N rows that Rows
\* returns, and no rows with the error when Rows fails.
C15_Tail ==
    out.call = "Tail" =>
        LET full == projectRows(out.recs, out.sel)
            N    == Len(full.rows)
            m    == IF out.n < N THEN out.n ELSE N
        IN IF out.err # NoError THEN out.rows = <<>>
           ELSE /\ full.err = NoError
                /\ out.rows = SubSeq(full.rows, N - m + 1, N)

\* handle h was built with a join whose right-hand handle carries a deferred
\* planning error
RECURSIVE JoinedErroneous(_)
JoinedErroneous(h) ==
    /\ derived[h].from # 0
    /\ \/ /\ derived[h].call \in {"Join", "Merge"}
          /\ derived[h].keys # <<>>
          /\ handles[derived[h].other].err # NoError
       \/ JoinedErroneous(derived[h].from)

\* C21: a materialization call on a handle built by joining a handle that
\* carries a deferred planning error returns an error and no rows.
C21_RightHandError ==
    (out.call \in Materializing /\ JoinedErroneous(out.h)) =>
        /\ out.err # NoError
        /\ out.rows = <<>>

-----------------------------------------------------------------------------
(* SpecRename.  Rename chains and selections over t.csv (a, b).              *)

tCSV == <<"t", ".", "csv">>

RenameTo(old, new) == [c \in {old} |-> new]

RenameInit ==
    /\ FoldIdle
    /\ FrameIdle
    /\ world = (tCSV :> [cols |-> << <<"a">>, <<"b">> >>, nrows |-> 2])

RenameNext ==
    \/ /\ NewDataFrame({tCSV})
       /\ UNCHANGED foldVars
    \/ /\ NumDerived < MaxChain
       /\ Filter({<< <<"1">>, <<"=">>, <<"0">> >>})
       /\ UNCHANGED foldVars
    \/ /\ NumDerived < MaxChain
       /\ Rename({RenameTo(<<"a">>, <<"x">>), RenameTo(<<"x">>, <<"y">>),
                  RenameTo(<<"b">>, <<"x">>)})
       /\ UNCHANGED foldVars
    \/ /\ NumDerived < MaxChain
       /\ Select({<< <<"y">> >>, << <<"x">> >>})
       /\ UNCHANGED foldVars
    \/ /\ NumDerived < MaxChain
       /\ Drop({<< <<"b">> >>})
       /\ UNCHANGED foldVars
    \/ /\ DfRows({"none"}, MaxCalls)
       /\ UNCHANGED foldVars

SpecRename == RenameInit /\ [][RenameNext]_vars

\* the columns of the table named t
TableCols(t) == world[CHOOSE f \in DOMAIN world : tableNameFromPath(f) = t].cols

FreshNames == {<<"x">>, <<"y">>, <<"z">>}

\* the chain Rename{A->X}, Rename{X->Y}, Select(S)
RenameChain(A, X, Y, S) ==
    << [kind |-> "rename", mapping |-> RenameTo(A, X)],
       [kind |-> "rename", mapping |-> RenameTo(X, Y)],
       [kind |-> "select", cols |-> <<S>>] >>

-----------------------------------------------------------------------------
(* SpecJoin.  Joins over base.csv (id, val), first.csv (id, x) and          *)
(* second.csv (id, val), one handle per file built beforehand.              *)

baseCSV == <<"base", ".", "csv">>

firstCSV == <<"first", ".", "csv">>

secondCSV == <<"second", ".", "csv">>

Built == [from |-> 0, call |-> "NewDataFrame", other |-> 0, keys |-> <<>>]

JoinMergeOptions == { MergeOpts(<< <<"id">> >>, <<>>, "", << <<"_A">>, <<"_B">> >>) }

JoinInit ==
    /\ FoldIdle
    /\ handles = <<NewFrame(baseCSV, 1, 1), NewFrame(firstCSV, 2, 2), NewFrame(secondCSV, 3, 3)>>
    /\ derived = <<Built, Built, Built>>
    /\ bags = << <<>>, <<>>, <<>> >>
    /\ counters = <<0, 0, 0>>
    /\ out = NoOut
    /\ ncalls = 0
    /\ procs = <<>>
    /\ world = (baseCSV :> [cols |-> << <<"id">>, <<"val">> >>, nrows |-> 1])
               @@ (firstCSV :> [cols |-> << <<"id">>, <<"x">> >>, nrows |-> 1])
               @@ (secondCSV :> [cols |-> << <<"id">>, <<"val">> >>, nrows |-> 1])

JoinNext ==
    \/ /\ NumDerived < MaxDerived
       /\ Join({<<"id">>}, {"INNER"})
       /\ UNCHANGED foldVars
    \/ /\ NumDerived < MaxDerived
       /\ Merge(JoinMergeOptions)
       /\ UNCHANGED foldVars
    \/ /\ NumDerived < MaxDerived
       /\ Drop({<< <<"x">> >>})
       /\ UNCHANGED foldVars
    \/ /\ NumDerived < MaxDerived
       /\ Select({<< <<"id">> >>})
       /\ UNCHANGED foldVars
    \/ /\ DfRows({"none"}, MaxCalls)
       /\ UNCHANGED foldVars

SpecJoin == JoinInit /\ [][JoinNext]_vars

\* every operation of df joins a table as it is on file
PlainJoins(df) ==
    /\ Len(df.ops) > 0
    /\ \A k \in 1..Len(df.ops) :
          /\ df.ops[k].kind = "join"
          /\ Len(df.ops[k].subquery.joins) = 0
          /\ Len(df.ops[k].subquery.projection) = 1

\* the table the k-th operation of df joins
JoinedTable(df, k) == df.ops[k].subquery.from

\* the suffix pair of the k-th operation of df
JoinSuffixes(df, k) == effectiveSuffixes(df.ops[k].suffixes)

\* no two joins of df share a suffix
DistinctSuffixes(df) ==
    \A i, j \in 1..Len(df.ops) :
        i # j => Range(JoinSuffixes(df, i)) \cap Range(JoinSuffixes(df, j)) = {}

\* neither c nor a positional c_N is a key of row
NoResidue(row, c, n) ==
    /\ c \notin DOMAIN row
    /\ \A i \in 1..n : c \o <<NumSuffix(i)>> \notin DOMAIN row

\* C7: in the rows of a pipeline of joins, a name that occurs in the base table
\* and in the k-th joined table appears under the k-th join's left suffix with
\* the base value and under its right suffix with the joined table's value, and
\* neither unsuffixed nor positional.
C7_PerJoinSuffix ==
    (out.call = "Rows" /\ out.err = NoError /\ PlainJoins(handles[out.h])
        /\ DistinctSuffixes(handles[out.h])) =>
        LET df   == handles[out.h]
            base == tableNameFromPath(df.source)
        IN \A k \in 1..Len(df.ops), r \in 1..Len(out.rows) :
              \A c \in Range(TableCols(base)) \cap Range(TableCols(JoinedTable(df, k))) :
                 LET row   == out.rows[r]
                     left  == c \o JoinSuffixes(df, k)[1]
                     right == c \o JoinSuffixes(df, k)[2]
                 IN /\ left \in DOMAIN row
                    /\ row[left].tbl = base /\ row[left].col = c
                    /\ right \in DOMAIN row
                    /\ row[right].tbl = JoinedTable(df, k) /\ row[right].col = c
                    /\ NoResidue(row, c, Len(df.ops))

\* C8: in the rows of two sequential joins, a name that occurs in the base table
\* and in both joined tables appears as four distinct columns, the two
\* left-suffixed ones with the base value and each right-suffixed one with its
\* own join's value, and neither unsuffixed nor positional.
C8_SuffixStability ==
    (out.call = "Rows" /\ out.err = NoError /\ PlainJoins(handles[out.h])
        /\ Len(handles[out.h].ops) = 2) =>
        LET df   == handles[out.h]
            base == tableNameFromPath(df.source)
        IN \A r \in 1..Len(out.rows) :
              \A c \in Range(TableCols(base)) \cap Range(TableCols(JoinedTable(df, 1)))
                           \cap Range(TableCols(JoinedTable(df, 2))) :
                 LET row == out.rows[r]
                     l1  == c \o JoinSuffixes(df, 1)[1]
                     r1  == c \o JoinSuffixes(df, 1)[2]
                     l2  == c \o JoinSuffixes(df, 2)[1]
                     r2  == c \o JoinSuffixes(df, 2)[2]
                 IN /\ Cardinality({l1, r1, l2, r2}) = 4
                    /\ {l1, r1, l2, r2} \subseteq DOMAIN row
                    /\ row[l1].tbl = base /\ row[l1].col = c
                    /\ row[l2].tbl = base /\ row[l2].col = c
                    /\ row[r1].tbl = JoinedTable(df, 1) /\ row[r1].col = c
                    /\ row[r2].tbl = JoinedTable(df, 2) /\ row[r2].col = c
                    /\ NoResidue(row, c, 2)

\* the columns that the operations of df remove: dropped, or left out of a
\* non-empty selection
RemovedColumns(df) ==
    UNION { IF df.ops[i].kind = "drop" THEN Range(df.ops[i].cols)
            ELSE IF df.ops[i].kind = "select"
                 THEN Range(TableCols(tableNameFromPath(df.source))) \ Range(df.ops[i].cols)
                 ELSE {} : i \in 1..Len(df.ops) }

\* C10: when L, a handle as built on one file, joins a pipeline R over another
\* file, no value of a column that R dropped or left out of its selection is in
\* the rows of the join.
C10_JoinedPipeline ==
    (out.call = "Rows" /\ out.err = NoError /\ derived[out.h].call \in {"Join", "Merge"}) =>
        LET L == handles[derived[out.h].from]
            R == handles[derived[out.h].other]
        IN (L.ops = <<>> /\ L.source # R.source /\ derived[derived[out.h].other].call \in {"Drop", "Select"}) =>
              \A r \in 1..Len(out.rows) : \A key \in DOMAIN out.rows[r] :
                 ~(/\ out.rows[r][key].tbl = tableNameFromPath(R.source)
                   /\ out.rows[r][key].col \in RemovedColumns(R))

-----------------------------------------------------------------------------
(* SpecSchema.  Chains of two schema operations over t.csv (a, b): Rename,  *)
(* Mutate, Drop and Select in every order, then Rows.                        *)

SchemaInit ==
    /\ FoldIdle
    /\ FrameIdle
    /\ world = (tCSV :> [cols |-> << <<"a">>, <<"b">> >>, nrows |-> 2])

SchemaNext ==
    \/ /\ NewDataFrame({tCSV})
       /\ UNCHANGED foldVars
    \/ /\ NumDerived < MaxDerived
       /\ Rename({RenameTo(<<"a">>, <<"x">>), RenameTo(<<"x">>, <<"a">>),
                  RenameTo(<<"a">>, <<"b">>)})
       /\ UNCHANGED foldVars
    \/ /\ NumDerived < MaxDerived
       /\ Mutate({<< <<"x">>, << <<"x">>, <<"+">>, <<"1">> >> >>})
       /\ UNCHANGED foldVars
    \/ /\ NumDerived < MaxDerived
       /\ Drop({<< <<"a">> >>, << <<"x">> >>})
       /\ UNCHANGED foldVars
    \/ /\ NumDerived < MaxDerived
       /\ Select({<< <<"a">> >>})
       /\ UNCHANGED foldVars
    \/ /\ DfRows({"none"}, MaxCalls)
       /\ UNCHANGED foldVars

SpecSchema == SchemaInit /\ [][SchemaNext]_vars

\* the value of expression e computed by the engine on row k
Computed(e, k) == [fn |-> "EXPR", tbl |-> <<>>, col |-> <<>>, row |-> k, expr |-> e]

\* e with every occurrence of the name X replaced by A
Substituted(e, X, A) == [i \in 1..Len(e) |-> IF e[i] = X THEN A ELSE e[i]]

\* C11: Rename{A->X}, Mutate(X, e) with e over X returns rows in which key X
\* holds the value of e computed on the original A, and key A is absent.
C11_MutateOnRenamed ==
    out.call = "Rows" =>
        LET df == handles[out.h]
            t  == tableNameFromPath(df.source)
        IN \A A \in Range(TableCols(t)), X \in FreshNames :
              (/\ Len(df.ops) = 2
               /\ df.ops[1] = [kind |-> "rename", mapping |-> RenameTo(A, X)]
               /\ df.ops[2].kind = "mutate"
               /\ df.ops[2].col = X
               /\ X \in Range(df.ops[2].expr)) =>
                  /\ out.err = NoError
                  /\ Len(out.rows) = world[df.source].nrows
                  /\ \A k \in 1..Len(out.rows) :
                        /\ X \in DOMAIN out.rows[k]
                        /\ out.rows[k][X] = Computed(Substituted(df.ops[2].expr, X, A), k)
                        /\ A \notin DOMAIN out.rows[k]

\* C16: Rename{A->X} followed by Drop(X) or by Drop(A) returns rows without
\* key X and without key A, every other column of the table keeping its value.
C16_DropAfterRename ==
    out.call = "Rows" =>
        LET df == handles[out.h]
            t  == tableNameFromPath(df.source)
        IN \A A \in Range(TableCols(t)), X \in FreshNames \cup Range(TableCols(t)) :
           \A D \in {A, X} :
              (A # X /\ df.ops = << [kind |-> "rename", mapping |-> RenameTo(A, X)],
                                   [kind |-> "drop", cols |-> <<D>>] >>) =>
                  /\ out.err = NoError
                  /\ Len(out.rows) = world[df.source].nrows
                  /\ \A k \in 1..Len(out.rows) :
                        /\ DOMAIN out.rows[k] = Range(TableCols(t)) \ {A, X}
                        /\ \A c \in DOMAIN out.rows[k] : out.rows[k][c] = Cell(t, c, k)

\* Rows returned for Rename{a->x}, Drop(a): the column is named by its
\* original name
C16_Witness ==
    /\ out.call = "Rows"
    /\ handles[out.h].ops = << [kind |-> "rename", mapping |-> RenameTo(<<"a">>, <<"x">>)],
                               [kind |-> "drop", cols |-> << <<"a">> >>] >>
    /\ Len(out.rows) = 2
    /\ DOMAIN out.rows[1] = {<<"b">>}

\* C17: Rename{A->B}, Rename{B->A} returns the rows of the table as they are:
\* key A holds its original value and no key is added.
C17_RenameRoundTrip ==
    out.call = "Rows" =>
        LET df == handles[out.h]
            t  == tableNameFromPath(df.source)
        IN \A A \in Range(TableCols(t)), B \in FreshNames :
              df.ops = << [kind |-> "rename", mapping |-> RenameTo(A, B)],
                          [kind |-> "rename", mapping |-> RenameTo(B, A)] >> =>
                  /\ out.err = NoError
                  /\ Len(out.rows) = world[df.source].nrows
                  /\ \A k \in 1..Len(out.rows) :
                        /\ A \in DOMAIN out.rows[k]
                        /\ out.rows[k][A] = Cell(t, A, k)
                        /\ DOMAIN out.rows[k] \subseteq Range(TableCols(t))

\* C18: after Select(S), Drop operations add no column to the output: every
\* key of a returned row is in S.
C18_SelectNotWidened ==
    out.call = "Rows" =>
        LET df == handles[out.h]
        IN (/\ Len(df.ops) >= 2
            /\ df.ops[1].kind = "select"
            /\ \A i \in 2..Len(df.ops) : df.ops[i].kind = "drop"
            /\ out.err = NoError) =>
               \A k \in 1..Len(out.rows) : DOMAIN out.rows[k] \subseteq Range(df.ops[1].cols)

\* C19: after Drop(c) as the first operation, followed by Rename operations
\* only, no returned row holds a value of column c under any key.
C19_DroppedStaysDropped ==
    out.call = "Rows" =>
        LET df == handles[out.h]
            t  == tableNameFromPath(df.source)
        IN (/\ Len(df.ops) >= 2
            /\ df.ops[1].kind = "drop"
            /\ Range(df.ops[1].cols) \subseteq Range(TableCols(t))
            /\ \A i \in 2..Len(df.ops) : df.ops[i].kind = "rename"
            /\ out.err = NoError) =>
               \A k \in 1..Len(out.rows) : \A key \in DOMAIN out.rows[k] :
                  ~(/\ out.rows[k][key].fn = ""
                    /\ out.rows[k][key].col \in Range(df.ops[1].cols))

-----------------------------------------------------------------------------
(* SpecWarn.  One lineage over t.csv (a, b) whose folds record warnings:    *)
(* Drop(b) and Cast(b) after Select(a).  Every evaluating call may be made  *)
(* twice, and Warnings may be read at any time.                             *)

WarnInit ==
    /\ FoldIdle
    /\ FrameIdle
    /\ world = (tCSV :> [cols |-> << <<"a">>, <<"b">> >>, nrows |-> 1])

WarnNext ==
    \/ /\ NewDataFrame({tCSV})
       /\ UNCHANGED foldVars
    \/ /\ NumDerived < MaxDerived
       /\ Select({<< <<"a">> >>})
       /\ UNCHANGED foldVars
    \/ /\ NumDerived < MaxDerived
       /\ Drop({<< <<"b">> >>})
       /\ UNCHANGED foldVars
    \/ /\ NumDerived < MaxDerived
       /\ Cast({<<"b">>})
       /\ UNCHANGED foldVars
    \/ /\ DfRows({"none"}, MaxEvals)
       /\ UNCHANGED foldVars
    \/ /\ DfHead({1}, {"none"}, MaxEvals)
       /\ UNCHANGED foldVars
    \/ /\ DfShape({"none"}, MaxEvals)
       /\ UNCHANGED foldVars
    \/ /\ DfColumns({"none"}, MaxEvals)
       /\ UNCHANGED foldVars
    \/ /\ DfDebugSQL(MaxEvals)
       /\ UNCHANGED foldVars
    \/ /\ DfWarnings
       /\ UNCHANGED foldVars
    \/ /\ CallerWrites
       /\ UNCHANGED foldVars

SpecWarn == WarnInit /\ [][WarnNext]_vars

\* the calls that fold the operation list of their handle
Evaluating == {"Rows", "Head", "Tail", "Print", "ToCSV", "Shape", "Columns", "DebugSQL"}

\* s is a prefix of t
IsPrefix(s, t) == Len(s) <= Len(t) /\ SubSeq(t, 1, Len(s)) = s

\* C12: a handle returned by a chained call holds the warning bag of its
\* receiver; no step removes or changes an entry of a bag; the warnings that a
\* fold records are appended to the bag of the lineage in the order recorded;
\* Warnings returns the whole bag; a write to the returned slice leaves the
\* bag as it was.
C12_SharedBag ==
    [][ /\ \A h \in 1..Len(handles') :
              derived'[h].from # 0 => handles'[h].warns = handles'[derived'[h].from].warns
        /\ Len(bags') >= Len(bags)
        /\ \A b \in 1..Len(bags) : IsPrefix(bags[b], bags'[b])
        /\ (ncalls' = ncalls + 1 /\ out'.call \in Evaluating) =>
              LET df == handles[out'.h]
              IN \E ords \in OrderSeqs(df.ops) :
                    bags'[df.warns] =
                        bags[df.warns] \o buildQueryState(df, <<>>, ords).warnings
        /\ (out'.call = "Warnings" /\ ~out'.written) =>
              out'.list = bags'[handles'[out'.h].warns]
        /\ (out'.call = "Warnings" /\ out'.written) => bags' = bags
      ]_vars

\* the caller wrote to the slice that Warnings returned on the root handle,
\* whose own operation list is empty: the warnings were recorded by the fold
\* of another handle of the lineage
C12_Witness ==
    /\ out.call = "Warnings"
    /\ out.written
    /\ Len(out.list) > 0
    /\ handles[out.h].ops = <<>>
    /\ Len(bags[handles[out.h].warns]) > 0

\* C20: a second call of the same evaluating method on the same handle leaves
\* the warning bag, which is what Warnings returns, as it was; a call of
\* DebugSQL leaves the bag, the handles and the alias counters as they were.
C20_WarningsStable ==
    [][ ncalls' = ncalls + 1 =>
          /\ out'.call = "DebugSQL" =>
                (bags' = bags /\ handles' = handles /\ counters' = counters)
          /\ (out.call \in Evaluating /\ out'.call = out.call /\ out'.h = out.h) =>
                bags' = bags
      ]_vars

-----------------------------------------------------------------------------
(* SpecRace.  Rows called from several goroutines on handles of one lineage *)
(* over t.csv (a, b).  A goroutine folds its operation list one operation   *)
(* at a time; an operation reads and writes the goroutine's own queryState  *)
(* only, except for warningBag.add, whose statement                         *)
(* wb.list = append(wb.list, msg) reads the shared list and then writes it, *)
(* with no lock between the two.  The read and the write are taken as       *)
(* atomic each; a torn slice header is not modelled.                        *)

\* go df.Rows(): execute has passed the df.err test and built the empty state
GoRows == \E h \in 1..Len(handles) :
    /\ Len(procs) < MaxProcs
    /\ handles[h].err = NoError
    /\ procs' = Append(procs,
          [h |-> h, pc |-> "fold", i |-> 1, ops |-> handles[h].ops,
           q |-> newQueryState(tableNameFromPath(handles[h].source), <<>>),
           pending |-> <<>>, loaded |-> <<>>, rows |-> <<>>, err |-> NoError])
    /\ UNCHANGED <<handles, derived, bags, counters, world, out, ncalls>>

\* one op.Apply(&state) of buildQueryState up to its calls of warn: pending
\* holds the messages the operation passes to warningBag.add, in order
GoApply == \E p \in 1..Len(procs) :
    /\ procs[p].pc = "fold"
    /\ procs[p].i <= Len(handles[procs[p].h].ops)
    /\ \E order \in Orders(handles[procs[p].h].ops[procs[p].i]) :
          procs' = [procs EXCEPT ![p] =
              [@ EXCEPT !.q = [Apply(procs[p].q, handles[procs[p].h].ops[procs[p].i], order)
                                  EXCEPT !.warnings = <<>>],
                        !.pending = Apply(procs[p].q, handles[procs[p].h].ops[procs[p].i],
                                          order).warnings,
                        !.i = @ + 1,
                        !.pc = IF Apply(procs[p].q, handles[procs[p].h].ops[procs[p].i],
                                        order).warnings = <<>>
                               THEN "fold" ELSE "load"]]
    /\ UNCHANGED <<handles, derived, bags, counters, world, out, ncalls>>

\* warningBag.add: the read of wb.list
GoAddLoad == \E p \in 1..Len(procs) :
    /\ procs[p].pc = "load"
    /\ procs' = [procs EXCEPT ![p] =
          [@ EXCEPT !.loaded = bags[handles[procs[p].h].warns], !.pc = "store"]]
    /\ UNCHANGED <<handles, derived, bags, counters, world, out, ncalls>>

\* warningBag.add: the write of append's result to wb.list
GoAddStore == \E p \in 1..Len(procs) :
    /\ procs[p].pc = "store"
    /\ bags' = [bags EXCEPT ![handles[procs[p].h].warns] =
                   Append(procs[p].loaded, Head(procs[p].pending))]
    /\ procs' = [procs EXCEPT ![p] =
          [@ EXCEPT !.pending = Tail(@),
                    !.pc = IF Len(procs[p].pending) > 1 THEN "load" ELSE "fold"]]
    /\ UNCHANGED <<handles, derived, counters, world, out, ncalls>>

\* the rest of execute after buildQueryState: the engine is opened on the
\* files, the statement is run and the rows are reconciled
GoExecute == \E p \in 1..Len(procs) :
    /\ procs[p].pc = "fold"
    /\ procs[p].i > Len(handles[procs[p].h].ops)
    /\ \E r \in OpenOutcomes(procs[p].q, collectRequiredFiles(handles[procs[p].h]),
                            compileSQL(procs[p].q, NoLimit, <<>>), "none") :
          procs' = [procs EXCEPT ![p] =
              [@ EXCEPT !.rows = r.rows, !.err = r.err, !.pc = "done"]]
    /\ UNCHANGED <<handles, derived, bags, counters, world, out, ncalls>>

RaceInit ==
    /\ FoldIdle
    /\ FrameIdle
    /\ world = (tCSV :> [cols |-> << <<"a">>, <<"b">> >>, nrows |-> 1])

RaceNext ==
    \/ /\ NewDataFrame({tCSV})
       /\ UNCHANGED foldVars
    \/ /\ NumDerived < MaxChain
       /\ Select({<< <<"a">> >>})
       /\ UNCHANGED foldVars
    \/ /\ NumDerived < MaxChain
       /\ Drop({<< <<"b">> >>})
       /\ UNCHANGED foldVars
    \/ /\ NumDerived < MaxChain
       /\ Cast({<<"b">>})
       /\ UNCHANGED foldVars
    \/ /\ GoRows
       /\ UNCHANGED foldVars
    \/ /\ GoApply
       /\ UNCHANGED foldVars
    \/ /\ GoAddLoad
       /\ UNCHANGED foldVars
    \/ /\ GoAddStore
       /\ UNCHANGED foldVars
    \/ /\ GoExecute
       /\ UNCHANGED foldVars

SpecRace == RaceInit /\ [][RaceNext]_vars

\* the warnings that a fold of df records
Recorded(df) ==
    buildQueryState(df, <<>>, CHOOSE ords \in OrderSeqs(df.ops) : TRUE).warnings

\* C13: when two goroutines have returned from Rows on two handles of one
\* lineage, the shared bag holds exactly the warnings that the two folds
\* recorded, each as often as it was recorded; the operation lists of the
\* handles are as they were when the calls began; each call has returned what
\* Rows returns on its handle when run alone.
C13_ConcurrentSafe ==
    (/\ Len(procs) = 2
     /\ procs[1].pc = "done" /\ procs[2].pc = "done"
     /\ procs[1].h # procs[2].h
     /\ handles[procs[1].h].warns = handles[procs[2].h].warns) =>
        LET w   == handles[procs[1].h].warns
            all == Recorded(handles[procs[1].h]) \o Recorded(handles[procs[2].h])
        IN /\ Len(bags[w]) = Len(all)
           /\ \A m \in Range(all) : Count(bags[w], m) = Count(all, m)
           /\ \A p \in 1..2 :
                 /\ handles[procs[p].h].ops = procs[p].ops
                 /\ \E r \in ExecOutcomes(handles[procs[p].h], <<>>, NoLimit, {"none"}) :
                       r.rows = procs[p].rows /\ r.err = procs[p].err

-----------------------------------------------------------------------------
(* SpecSuffix.  Joins of l.csv with r.csv where columns carry names that end *)
(* in a number: the schemas of the two files are drawn from small sets, one  *)
(* handle per file is built beforehand.                                      *)

lCSV == <<"l", ".", "csv">>

rCSV == <<"r", ".", "csv">>

LeftSchemas ==
    { << <<"id">>, <<"col">>, <<"col", "_2025">> >>,
      << <<"id">>, <<"col">>, <<"col", "_2">> >>,
      << <<"id">>, <<"score">>, <<"score", "_1">> >>,
      << <<"id">>, <<"col", "_2025">> >> }

RightSchemas ==
    { << <<"id">>, <<"x">> >>,
      << <<"id">>, <<"col">> >>,
      << <<"id">>, <<"col", "_2025">> >> }

SuffixInit ==
    /\ FoldIdle
    /\ handles = <<NewFrame(lCSV, 1, 1), NewFrame(rCSV, 2, 2)>>
    /\ derived = <<Built, Built>>
    /\ bags = << <<>>, <<>> >>
    /\ counters = <<0, 0>>
    /\ out = NoOut
    /\ ncalls = 0
    /\ procs = <<>>
    /\ \E ls \in LeftSchemas, rs \in RightSchemas :
          world = (lCSV :> [cols |-> ls, nrows |-> 1]) @@ (rCSV :> [cols |-> rs, nrows |-> 1])

SuffixNext ==
    \/ /\ NumDerived < MaxDerived
       /\ Join({<<"id">>}, {"INNER"})
       /\ UNCHANGED foldVars
    \/ /\ NumDerived < MaxDerived
       /\ Merge(JoinMergeOptions)
       /\ UNCHANGED foldVars
    \/ /\ DfRows({"none"}, MaxCalls)
       /\ UNCHANGED foldVars

SpecSuffix == SuffixInit /\ [][SuffixNext]_vars

\* the rows as scanAll hands them to transformRows in the last call
RawRows == scanAll(EvalQuery(out.sql, OpenDB(collectRequiredFiles(handles[out.h]))))

\* the last call was Rows on a pipeline of joins and returned rows
JoinedRows ==
    /\ out.call = "Rows"
    /\ out.err = NoError
    /\ Len(out.sql.joins) > 0
    /\ Len(out.rows) > 0

\* key ends in a number that is no index of one of n joins
OutOfRange(key, n) ==
    /\ Len(key) >= 2
    /\ SuffixNum(key[Len(key)]) >= 0
    /\ ~(1 <= SuffixNum(key[Len(key)]) /\ SuffixNum(key[Len(key)]) <= 10
            /\ SuffixNum(key[Len(key)]) <= n)

\* key is kept in the reconciled row with the value it has in the raw row
Kept(raw, row, key) == key \in DOMAIN row /\ row[key] = raw[key]

\* C27: a key whose numeric suffix is below 1, above 10 or above the number of
\* joins is in the reconciled row with its name and value.
C27_SuffixBounds ==
    JoinedRows =>
        \A r \in 1..Len(RawRows) : \A key \in DOMAIN RawRows[r] :
            OutOfRange(key, Len(out.sql.joins)) => Kept(RawRows[r], out.rows[r], key)

\* key is the unsuffixed name of a collision in row: a positional duplicate of
\* it for one of n joins is in row
CollisionBase(row, key, n) ==
    \E i \in 1..n : i <= 10 /\ (key \o <<NumSuffix(i)>>) \in DOMAIN row

\* key is a name written for a collision in row under the suffixes of df's
\* joins (every operation of df is a join)
SuffixedName(row, key, df) ==
    \E i \in 1..Len(df.ops), k \in DOMAIN row :
        /\ parseDuplicateKey(k).ok
        /\ parseDuplicateKey(k).idx = i
        /\ key \in { parseDuplicateKey(k).base \o JoinSuffixes(df, i)[1],
                     parseDuplicateKey(k).base \o JoinSuffixes(df, i)[2] }

\* C27 as amended: a key whose numeric suffix is outside the range is in the
\* reconciled row with its name and value, unless it is the unsuffixed name of
\* a collision or a name written for one.
C27_SuffixBoundsAmended ==
    JoinedRows =>
        \A r \in 1..Len(RawRows) : \A key \in DOMAIN RawRows[r] :
            (/\ OutOfRange(key, Len(out.sql.joins))
             /\ ~CollisionBase(RawRows[r], key, Len(out.sql.joins))
             /\ ~SuffixedName(RawRows[r], key, handles[out.h]))
                => Kept(RawRows[r], out.rows[r], key)

\* rows were returned for two joins of a table that has col and col_2025 with
\* a table that has col: col_1 and col_2 are positional, col_2025 is not
C27_Witness ==
    /\ JoinedRows
    /\ Len(out.sql.joins) = 2
    /\ {<<"col", "_1">>, <<"col", "_2">>, <<"col", "_2025">>} \subseteq DOMAIN RawRows[1]
    /\ <<"col", "_2025">> \in DOMAIN out.rows[1]
    /\ <<"col", "_2">> \notin DOMAIN out.rows[1]


\* the column names of the result set of the last call, as the engine gives
\* them, before scanAll numbers the repeated ones
ResultCols == EvalQuery(out.sql, OpenDB(collectRequiredFiles(handles[out.h]))).cols

\* name occurs once in the result set: no two tables of the pipeline share it
Unshared(name) == Cardinality({i \in 1..Len(ResultCols) : ResultCols[i] = name}) = 1

\* C28: in the rows of a pipeline of joins, a column whose name no two tables
\* share keeps its name and value, also when the name ends in a number within
\* the join count or is such a name without the number.
C28_OnlyCollisions ==
    JoinedRows =>
        \A r \in 1..Len(RawRows) : \A name \in Range(ResultCols) :
            Unshared(name) => Kept(RawRows[r], out.rows[r], name)

-----------------------------------------------------------------------------
(* SpecAlias.  Chains and branches of up to three joins over base.csv,      *)
(* first.csv and second.csv, one handle per file built beforehand.          *)

AliasNext ==
    \/ /\ NumDerived < MaxChain
       /\ Join({<<"id">>}, {"INNER", "LEFT"})
       /\ UNCHANGED foldVars
    \/ /\ NumDerived < MaxChain
       /\ Merge(FrameMergeOptions)
       /\ UNCHANGED foldVars
    \/ /\ NumDerived < MaxChain
       /\ Filter({<< <<"id">>, <<">">>, <<"1">> >>})
       /\ UNCHANGED foldVars

SpecAlias == JoinInit /\ [][AliasNext]_vars

\* the positions of the join operations in an operation list
JoinsOf(ops) == {k \in 1..Len(ops) : ops[k].kind = "join"}

\* C30: a call never lowers the alias counter of a lineage, and after it the
\* join aliases in the operation list of every handle are pairwise distinct.
C30_AliasesUnique ==
    [][ /\ \A c \in 1..Len(counters) : counters'[c] >= counters[c]
        /\ \A h \in 1..Len(handles') :
              \A k \in JoinsOf(handles'[h].ops), l \in JoinsOf(handles'[h].ops) :
                  k # l => handles'[h].ops[k].alias # handles'[h].ops[l].alias
      ]_vars

\* a handle joins one file twice, and a join on another branch of its lineage
\* took the alias number in between
C30_Witness ==
    \E h \in 1..Len(handles) :
        /\ JoinsOf(handles[h].ops) = {1, 2}
        /\ handles[h].ops[1].subquery.from = handles[h].ops[2].subquery.from
        /\ handles[h].ops[1].alias[Len(handles[h].ops[1].alias)] = "1"
        /\ handles[h].ops[2].alias[Len(handles[h].ops[2].alias)] = "3"

====
